---- MODULE Spec2Model ----
(***************************************************************************)
(* A model of the yasno-bot notification core: the schedule change         *)
(* detector (src/src/yasno/changes.ts), the rate limited bulk sender       *)
(* (sendBulkMessages of the Telegram API helpers) and the update cycle     *)
(* that joins them (src/src/services/scheduler.ts).                        *)
(***************************************************************************)
EXTENDS Integers, Sequences, FiniteSets, TLC

VARIABLES
  fresh,        \* detectChangedZones' first argument: the snapshot just fetched
  cached,       \* its second argument: the snapshot read from the cache
  edits,        \* how many upstream edits fresh has received
  returned,     \* the ChangeSets the calls of detectChangedZones returned, in order
  chatIds,      \* sendBulkMessages' recipient list
  bulkPc,       \* where the call of sendBulkMessages stands
  loopI,        \* its loop variable i: the list offset of the current chunk
  chunk,        \* the recipients of the current chunk
  pending,      \* the sends of the current chunk that have not settled yet
  results,      \* the settled results of the current chunk, by kind
  successful,   \* its counter of successful sends
  failed,       \* its counter of failed sends
  sent,         \* the recipients a send was started for, in the order of the starts
  pauses,       \* how many CHUNK_DELAY_MS pauses the call has made
  sendsTrue,    \* how many sends have returned true
  fetchThrew,   \* whether the fetch of some send has thrown
  sendsNotOk,   \* how many sends had a fetch that threw or answered not ok
  chunks,       \* the chunks the call has started, in order
  sinceLastPause, \* how many sends were started since the last pause elapsed
  hung,         \* the sends of the current chunk that will never settle
  cyclePc,      \* where the call of checkScheduleUpdates stands
  cycles,       \* how many calls of checkScheduleUpdates the cron has made
  fetchResult,  \* whether fetchYasnoDataWithRetry gave data or null in this call
  changedZones, \* its local changedZones
  subscribersByZone, \* the local subscribersByZone of notifySubscribersOfChanges
  zoneIdx,      \* the position in changedZones of the zone being notified
  scheduleCache, \* the rows of table schedule_cache
  history,      \* the rows of table schedule_history, in insertion order
  subscriptions, \* the rows of table subscriptions joined with their users
  calls,        \* the calls of sendBulkMessages the cycle has made: zone, list, text
  logged,       \* per returned call: its zone and whether any send succeeded
  accesses,     \* the fetches, cache reads and cache writes of the cycle, in order
  runs,         \* the invocations of checkScheduleUpdates that may overlap, by number
  cacheWrites,  \* how many times the cache row has been rewritten by them
  users,        \* the rows of table users
  nextUserId,   \* the next value of the sequence behind users.id
  userSubs,     \* the rows of table subscriptions, by user_id
  ops,          \* the calls of subscribeUser and unsubscribeUser made so far
  lastSubscribed, \* per chat, the zone of its latest subscribeUser that returned true
  cmd,          \* the command handler: position, sender, text, recipients, replies
  retry         \* the call of fetchYasnoDataWithRetry: position, locals, attempts, result

detectVars == <<fresh, cached, edits, returned>>

bulkVars == <<chatIds, bulkPc, loopI, chunk, pending, results, successful, failed,
              sent, pauses, sendsTrue, fetchThrew, sendsNotOk, chunks, sinceLastPause,
              hung>>

cycleVars == <<cyclePc, cycles, fetchResult, changedZones, subscribersByZone, zoneIdx,
               scheduleCache, history, subscriptions, calls, logged, accesses>>

overlapVars == <<runs, cacheWrites>>

\* The variables of the components defined after the update cycle.
subsVars == <<users, nextUserId, userSubs, ops, lastSubscribed>>

cmdVars == <<cmd>>

retryVars == <<retry>>

laterVars == <<overlapVars, subsVars, cmdVars, retryVars>>

vars == <<detectVars, bulkVars, cycleVars, laterVars>>

(***************************************************************************)
(* Bounds of the model.                                                    *)
(***************************************************************************)
\* How many upstream edits separate the fresh snapshot from its base.
MaxEdits == 2
\* The longest slot list an edit may build.
MaxSlots == 2
\* How many times detectChangedZones is called on one pair of inputs.
MaxCalls == 2
\* The longest recipient list is two full chunks and this many recipients more.
MaxTail == 5
\* How many times the cron calls checkScheduleUpdates.
MaxCycles == 1
\* How many sends of one chunk may never settle.
MaxHung == 1
\* How many invocations of checkScheduleUpdates may run next to each other.
MaxRuns == 2
\* How many calls of subscribeUser and unsubscribeUser are made.
MaxOps == 3
\* The proxies fetchProxies returns at most.
MaxProxies == 4
\* The rows of table users at most.
MaxUsers == 3

(***************************************************************************)
(* Data: Slot, DaySchedule, ZoneData, YasnoResponse (the types file).      *)
(***************************************************************************)
SCHEDULE_STATUS == [APPLIES |-> "ScheduleApplies", WAITING |-> "WaitingForSchedule"]

SLOT_TYPE == [OUTAGE |-> "Definite", POWER |-> "NotPlanned"]

Statuses == {SCHEDULE_STATUS.APPLIES, SCHEDULE_STATUS.WAITING}

SlotTypes == {SLOT_TYPE.OUTAGE, SLOT_TYPE.POWER}

\* Minutes since midnight an edit may write into a slot's start or end.
Times == {450, 480}

Dates == {"2025-11-21", "2025-11-22"}

\* ZoneData.updatedOn is optional: "undefined" stands for the missing field.
Timestamps == {"undefined", "2025-11-21T16:55:00"}

ZoneIds == {"1.1", "1.2", "2.1"}

Slot(s, e, t) == [start |-> s, end |-> e, type |-> t]

DaySchedule(d, st, sl) == [date |-> d, status |-> st, slots |-> sl]

ZoneData(td, tm, u) == [today |-> td, tomorrow |-> tm, updatedOn |-> u]

\* A YasnoResponse is a JavaScript object: its keys in insertion order, each
\* with its ZoneData.  It is a sequence of entries with distinct zones.
Entry(z, zd) == [zone |-> z, data |-> zd]

EmptyResponse == << >>

\* The value of obj[zone] for a key the object does not hold.
Undefined == [undefined |-> TRUE]

ObjectKeys(obj) == [i \in 1..Len(obj) |-> obj[i].zone]

HasKey(obj, zone) == \E i \in 1..Len(obj) : obj[i].zone = zone

Get(obj, zone) ==
  IF HasKey(obj, zone)
  THEN obj[CHOOSE i \in 1..Len(obj) : obj[i].zone = zone].data
  ELSE Undefined

(***************************************************************************)
(* The change detector, src/src/yasno/changes.ts.                          *)
(***************************************************************************)
\* The loop of lines 62-69: TRUE when some index from i on holds a slot that
\* differs in start, end or type.
RECURSIVE SlotDiffersFrom(_, _, _)
SlotDiffersFrom(slots1, slots2, i) ==
  IF i > Len(slots1) THEN FALSE
  ELSE LET slot1 == slots1[i]
           slot2 == slots2[i]
       IN IF slot1.start # slot2.start \/ slot1.end # slot2.end \/ slot1.type # slot2.type
          THEN TRUE
          ELSE SlotDiffersFrom(slots1, slots2, i + 1)

\* Variant: the two days compared as objects (day1 !== day2), which two parsed
\* snapshots never share: every comparison says "different".
compareScheduleData_ByIdentity(day1, day2) == FALSE

\* Variant: the date string is compared too.
compareScheduleData_WithDate(day1, day2) ==
  IF day1.date # day2.date THEN FALSE
  ELSE IF day1.status # day2.status THEN FALSE
  ELSE IF Len(day1.slots) # Len(day2.slots) THEN FALSE
  ELSE IF SlotDiffersFrom(day1.slots, day2.slots, 1) THEN FALSE
  ELSE TRUE

\* Variant: the status comparison of lines 52-54 is missing.
compareScheduleData_NoStatus(day1, day2) ==
  IF Len(day1.slots) # Len(day2.slots) THEN FALSE
  ELSE IF SlotDiffersFrom(day1.slots, day2.slots, 1) THEN FALSE
  ELSE TRUE

\* Variant: slots matched as sets, every slot of one day looked up in the other.
compareScheduleData_AsSets(day1, day2) ==
  IF day1.status # day2.status THEN FALSE
  ELSE IF Len(day1.slots) # Len(day2.slots) THEN FALSE
  ELSE \A i \in 1..Len(day1.slots) : \E j \in 1..Len(day2.slots) :
         /\ day1.slots[i].start = day2.slots[j].start
         /\ day1.slots[i].end = day2.slots[j].end
         /\ day1.slots[i].type = day2.slots[j].type

\* TRUE when the two days hold the same status and the same slots.
compareScheduleData(day1, day2) ==
  IF day1.status # day2.status THEN FALSE
  ELSE IF Len(day1.slots) # Len(day2.slots) THEN FALSE
  ELSE IF SlotDiffersFrom(day1.slots, day2.slots, 1) THEN FALSE
  ELSE TRUE

\* Variant: a zone the cache has never held counts as unchanged.
hasZoneChanged_UnseenUnchanged(freshZone, cachedZone) ==
  IF cachedZone = Undefined THEN FALSE
  ELSE LET todayChanged == ~compareScheduleData(freshZone.today, cachedZone.today)
           tomorrowChanged == ~compareScheduleData(freshZone.tomorrow, cachedZone.tomorrow)
       IN todayChanged \/ tomorrowChanged

hasZoneChanged(freshZone, cachedZone) ==
  IF cachedZone = Undefined THEN TRUE
  ELSE LET todayChanged == ~compareScheduleData(freshZone.today, cachedZone.today)
           tomorrowChanged == ~compareScheduleData(freshZone.tomorrow, cachedZone.tomorrow)
       IN todayChanged \/ tomorrowChanged

\* Variant: the loop ends at the first changed zone.
RECURSIVE DetectLoop_StopsAtFirst(_, _, _, _)
DetectLoop_StopsAtFirst(freshData, cachedData, i, pushed) ==
  IF i > Len(ObjectKeys(freshData)) THEN pushed
  ELSE LET zone == ObjectKeys(freshData)[i]
       IN IF hasZoneChanged(Get(freshData, zone), Get(cachedData, zone))
          THEN Append(pushed, zone)
          ELSE DetectLoop_StopsAtFirst(freshData, cachedData, i + 1, pushed)

\* The for loop of lines 14-23 from key number i on, with the zones pushed so far.
RECURSIVE DetectLoop(_, _, _, _)
DetectLoop(freshData, cachedData, i, pushed) ==
  IF i > Len(ObjectKeys(freshData)) THEN pushed
  ELSE LET zone == ObjectKeys(freshData)[i]
           freshZone == Get(freshData, zone)
           cachedZone == Get(cachedData, zone)
       IN DetectLoop(freshData, cachedData, i + 1,
                     IF hasZoneChanged(freshZone, cachedZone)
                     THEN Append(pushed, zone)
                     ELSE pushed)

\* Variant: zones the fresh snapshot has dropped are reported too.
detectChangedZones_WithRemoved(freshData, cachedData) ==
  DetectLoop(freshData, cachedData, 1, << >>)
    \o SelectSeq(ObjectKeys(cachedData), LAMBDA z : ~HasKey(freshData, z))

\* Variant: changed zones are put in front of the list (unshift for push).
detectChangedZones_Unshift(freshData, cachedData) ==
  LET pushed == DetectLoop(freshData, cachedData, 1, << >>)
  IN [k \in 1..Len(pushed) |-> pushed[Len(pushed) + 1 - k]]

detectChangedZones(freshData, cachedData) ==
  DetectLoop(freshData, cachedData, 1, << >>)

(***************************************************************************)
(* Inputs of the detector.  A base snapshot is what the upstream API        *)
(* published; the edits below are the changes it publishes afterwards.      *)
(***************************************************************************)
SlotA == Slot(0, 450, SLOT_TYPE.OUTAGE)

SlotB == Slot(450, 1440, SLOT_TYPE.POWER)


BaseZone ==
  ZoneData(DaySchedule("2025-11-21", SCHEDULE_STATUS.APPLIES, <<SlotA, SlotB>>),
           DaySchedule("2025-11-22", SCHEDULE_STATUS.WAITING, << >>),
           "undefined")

BaseResponses ==
  { <<Entry("1.1", BaseZone), Entry("2.1", BaseZone)>>,
    <<Entry("2.1", BaseZone), Entry("1.1", BaseZone)>> }

\* The result of select('raw_data').eq('id', 1).single() when no row matches.
Null == [null |-> TRUE]

CacheRow(obj) == [raw_data |-> obj]

\* What the select of getCachedData may find when a snapshot arrives: no row,
\* the row the schema inserts ('{}'), or a row holding an earlier snapshot.
CacheRows ==
  { Null,
    CacheRow(EmptyResponse),
    CacheRow(<<Entry("1.1", BaseZone), Entry("2.1", BaseZone)>>) }

\* cacheRow?.raw_data || {}
getCachedData(cacheRow) ==
  IF cacheRow = Null THEN EmptyResponse ELSE cacheRow.raw_data

\* A row of table schedule_cache.
ScheduleCacheRow(id, obj) == [id |-> id, raw_data |-> obj]

\* select('raw_data').eq('id', 1).single(): the raw_data of the row with id
\* 1 when exactly one row matches, null otherwise.
SelectSingle(table) ==
  LET matching == { row \in table : row.id = 1 }
  IN IF Cardinality(matching) = 1
     THEN CacheRow((CHOOSE row \in matching : TRUE).raw_data)
     ELSE Null

\* The table as the schema leaves it, one row with id 1 holding '{}', and
\* as an earlier cycle leaves it, that row holding a snapshot.
ScheduleCacheTables ==
  { { ScheduleCacheRow(1, EmptyResponse) },
    { ScheduleCacheRow(1, <<Entry("1.1", BaseZone), Entry("2.1", BaseZone)>>) } }

Days == {"today", "tomorrow"}

\* obj with the data of key zone replaced.
SetZone(obj, zone, zd) ==
  [i \in 1..Len(obj) |-> IF obj[i].zone = zone THEN Entry(zone, zd) ELSE obj[i]]

\* zd with its today or tomorrow schedule replaced.
SetDay(zd, day, ds) ==
  IF day = "today" THEN [zd EXCEPT !.today = ds] ELSE [zd EXCEPT !.tomorrow = ds]

DayOf(zd, day) == IF day = "today" THEN zd.today ELSE zd.tomorrow

RemoveAt(seq, i) == [j \in 1..(Len(seq) - 1) |-> IF j < i THEN seq[j] ELSE seq[j + 1]]

\* No call of sendBulkMessages has been made.
BulkNotCalled ==
  /\ bulkPc = "idle"
  /\ loopI = 0
  /\ chunk = << >>
  /\ pending = 0
  /\ results = [fulfilledTrue |-> 0, fulfilledFalse |-> 0, rejected |-> 0]
  /\ successful = 0
  /\ failed = 0
  /\ sent = << >>
  /\ pauses = 0
  /\ sendsTrue = 0
  /\ fetchThrew = FALSE
  /\ sendsNotOk = 0
  /\ chunks = << >>
  /\ sinceLastPause = 0
  /\ hung = 0

BulkIdle == chatIds = << >> /\ BulkNotCalled

\* An object without keys, as a function of its keys.
EmptyObject == [z \in {} |-> << >>]

\* checkScheduleUpdates has not been called; the cache table holds the row
\* the schema inserts and the other tables are empty.
CycleIdle ==
  /\ cyclePc = "idle"
  /\ cycles = 0
  /\ fetchResult = "none"
  /\ changedZones = << >>
  /\ subscribersByZone = EmptyObject
  /\ zoneIdx = 0
  /\ scheduleCache = { ScheduleCacheRow(1, EmptyResponse) }
  /\ history = << >>
  /\ subscriptions = << >>
  /\ calls = << >>
  /\ logged = << >>
  /\ accesses = << >>

\* An invocation of checkScheduleUpdates that has not started: its position,
\* its local variables freshData, changedZones and subscribersByZone, the
\* state of the cache row it read, the loop position and the calls of
\* sendBulkMessages it made, and the invocations that ran while it did.
IdleRun ==
  [pc |-> "idle", freshData |-> EmptyResponse, changedZones |-> << >>, readAt |-> 0,
   subscribersByZone |-> EmptyObject, idx |-> 0, notified |-> << >>, overlapped |-> {}]

RunIds == 1..MaxRuns

\* The users and subscriptions tables as the schema creates them, no call of
\* subscribeUser or unsubscribeUser made.
SubsIdle ==
  /\ users = {}
  /\ nextUserId = 1
  /\ userSubs = {}
  /\ ops = << >>
  /\ lastSubscribed = [c \in {} |-> ""]

\* No update has been received by the command handler.
IdleCmd ==
  [pc |-> "idle", chatId |-> 0, command |-> << >>, message |-> << >>,
   uniqueChatIds |-> << >>, bulkText |-> << >>, replies |-> << >>]

\* fetchYasnoDataWithRetry has not been called: its position, the locals
\* proxies, selectedProxies and i, the calls of fetchYasnoData that returned
\* with the proxy and the data of each, the attempts after which it waited,
\* and what it returned.
IdleRetry ==
  [pc |-> "idle", proxies |-> << >>, selectedProxies |-> << >>, i |-> 0,
   attempts |-> << >>, waits |-> << >>, result |-> Undefined]

\* No invocation of the overlapping cycles has started and no call of the
\* later parts was made.
LaterIdle ==
  /\ runs = [r \in RunIds |-> IdleRun]
  /\ cacheWrites = 0
  /\ SubsIdle
  /\ cmd = IdleCmd
  /\ retry = IdleRetry

InitDetect ==
  /\ fresh \in BaseResponses
  /\ \E cacheRow \in CacheRows : cached = getCachedData(cacheRow)
  /\ edits = 0
  /\ returned = << >>
  /\ BulkIdle
  /\ CycleIdle
  /\ LaterIdle

\* The edits happen before the first call; the calls then see the same inputs.
CanEdit == edits < MaxEdits /\ returned = << >>

Edited(obj) ==
  /\ fresh' = obj
  /\ edits' = edits + 1
  /\ UNCHANGED <<cached, returned, bulkVars, cycleVars>>

EditDate ==
  /\ CanEdit
  /\ \E i \in 1..Len(fresh), day \in Days, d \in Dates :
       LET z == fresh[i].zone
           zd == fresh[i].data
       IN /\ d # DayOf(zd, day).date
          /\ Edited(SetZone(fresh, z, SetDay(zd, day, [DayOf(zd, day) EXCEPT !.date = d])))
  /\ UNCHANGED laterVars

EditUpdatedOn ==
  /\ CanEdit
  /\ \E i \in 1..Len(fresh), u \in Timestamps :
       LET z == fresh[i].zone
           zd == fresh[i].data
       IN /\ u # zd.updatedOn
          /\ Edited(SetZone(fresh, z, [zd EXCEPT !.updatedOn = u]))
  /\ UNCHANGED laterVars

EditStatus ==
  /\ CanEdit
  /\ \E i \in 1..Len(fresh), day \in Days, st \in Statuses :
       LET z == fresh[i].zone
           zd == fresh[i].data
       IN /\ st # DayOf(zd, day).status
          /\ Edited(SetZone(fresh, z, SetDay(zd, day, [DayOf(zd, day) EXCEPT !.status = st])))
  /\ UNCHANGED laterVars

EditSlot ==
  /\ CanEdit
  /\ \E i \in 1..Len(fresh), day \in Days :
       LET z == fresh[i].zone
           zd == fresh[i].data
           ds == DayOf(zd, day)
       IN \E k \in 1..Len(ds.slots) :
            \E s \in { [ds.slots[k] EXCEPT !.start = t] : t \in Times }
                     \cup { [ds.slots[k] EXCEPT !.end = t] : t \in Times }
                     \cup { [ds.slots[k] EXCEPT !.type = ty] : ty \in SlotTypes } :
              /\ s # ds.slots[k]
              /\ Edited(SetZone(fresh, z,
                          SetDay(zd, day, [ds EXCEPT !.slots = [ds.slots EXCEPT ![k] = s]])))
  /\ UNCHANGED laterVars

AppendSlot ==
  /\ CanEdit
  /\ \E i \in 1..Len(fresh), day \in Days :
       LET z == fresh[i].zone
           zd == fresh[i].data
           ds == DayOf(zd, day)
       IN /\ Len(ds.slots) < MaxSlots
          /\ Edited(SetZone(fresh, z,
                      SetDay(zd, day, [ds EXCEPT !.slots = Append(ds.slots, SlotA)])))
  /\ UNCHANGED laterVars

RemoveSlot ==
  /\ CanEdit
  /\ \E i \in 1..Len(fresh), day \in Days :
       LET z == fresh[i].zone
           zd == fresh[i].data
           ds == DayOf(zd, day)
       IN /\ ds.slots # << >>
          /\ Edited(SetZone(fresh, z,
                      SetDay(zd, day, [ds EXCEPT !.slots = RemoveAt(ds.slots, Len(ds.slots))])))
  /\ UNCHANGED laterVars

SwapSlots ==
  /\ CanEdit
  /\ \E i \in 1..Len(fresh), day \in Days :
       LET z == fresh[i].zone
           zd == fresh[i].data
           ds == DayOf(zd, day)
       IN \E k \in 1..(Len(ds.slots) - 1) :
            /\ ds.slots[k] # ds.slots[k + 1]
            /\ Edited(SetZone(fresh, z,
                        SetDay(zd, day,
                          [ds EXCEPT !.slots = [ds.slots EXCEPT ![k] = ds.slots[k + 1],
                                                                 ![k + 1] = ds.slots[k]]])))
  /\ UNCHANGED laterVars

\* A zone the upstream starts to publish: a new key, after the others.
AddZone ==
  /\ CanEdit
  /\ \E z \in ZoneIds :
       /\ ~HasKey(fresh, z)
       /\ Edited(Append(fresh, Entry(z, BaseZone)))
  /\ UNCHANGED laterVars

\* A zone the upstream stops publishing.
DropZone ==
  /\ CanEdit
  /\ \E i \in 1..Len(fresh) : Edited(RemoveAt(fresh, i))
  /\ UNCHANGED laterVars

\* The snapshot published so far is what an earlier cycle wrote to the cache
\* row and what getCachedData reads back now.
StoreCache ==
  /\ returned = << >>
  /\ cached # fresh
  /\ cached' = getCachedData(CacheRow(fresh))
  /\ UNCHANGED <<fresh, edits, returned, bulkVars, cycleVars>>
  /\ UNCHANGED laterVars

\* Variant: changedZones is one array shared by all calls, never emptied.
CallDetect_SharedArray ==
  /\ Len(returned) < MaxCalls
  /\ returned' = Append(returned,
                        (IF returned = << >> THEN << >> ELSE returned[Len(returned)])
                          \o detectChangedZones(fresh, cached))
  /\ UNCHANGED <<fresh, cached, edits, bulkVars, cycleVars>>
  /\ UNCHANGED laterVars

\* One call of detectChangedZones(fresh, cached): its return value is
\* recorded, its arguments are only read.
CallDetect ==
  /\ Len(returned) < MaxCalls
  /\ returned' = Append(returned, detectChangedZones(fresh, cached))
  /\ UNCHANGED <<fresh, cached, edits, bulkVars, cycleVars>>
  /\ UNCHANGED laterVars

NextDetect ==
  \/ EditDate
  \/ EditUpdatedOn
  \/ EditStatus
  \/ EditSlot
  \/ AppendSlot
  \/ RemoveSlot
  \/ SwapSlots
  \/ AddZone
  \/ DropZone
  \/ StoreCache
  \/ CallDetect

SpecDetect == InitDetect /\ [][NextDetect]_vars

(***************************************************************************)
(* The bulk sender: sendMessage and sendBulkMessages of the Telegram API   *)
(* helpers, with TELEGRAM_RATE_LIMITS of the configuration constants.      *)
(***************************************************************************)
TELEGRAM_RATE_LIMITS ==
  [MESSAGES_PER_SECOND |-> 30, CHUNK_SIZE |-> 30, CHUNK_DELAY_MS |-> 1000]

\* The recipient list lengths tried: none, one, a chunk less one, a chunk, a
\* chunk and one, two chunks, two chunks and a tail.
RecipientCounts ==
  { 0, 1,
    TELEGRAM_RATE_LIMITS.CHUNK_SIZE - 1,
    TELEGRAM_RATE_LIMITS.CHUNK_SIZE,
    TELEGRAM_RATE_LIMITS.CHUNK_SIZE + 1,
    2 * TELEGRAM_RATE_LIMITS.CHUNK_SIZE,
    2 * TELEGRAM_RATE_LIMITS.CHUNK_SIZE + MaxTail }

\* Chat ids are told apart by their number only: recipient k has chat id k.
RecipientLists == { [k \in 1..n |-> k] : n \in RecipientCounts }

\* What the fetch of one sendMessage call may do: answer with response.ok
\* true, answer with response.ok false, or throw.
FetchOutcomes == {"ok", "notOk", "threw"}

\* Variant: the end offset of the slice is taken as inclusive.
Slice_Inclusive(seq, from, to) ==
  SubSeq(seq, from + 1, IF to + 1 < Len(seq) THEN to + 1 ELSE Len(seq))

\* seq.slice(from, to): offsets from 0, to exclusive and cut at the length.
Slice(seq, from, to) ==
  SubSeq(seq, from + 1, IF to < Len(seq) THEN to ELSE Len(seq))

\* Variant: the catch of sendMessage returns true.
sendMessage_CatchReturnsTrue(fetchOutcome) ==
  IF fetchOutcome = "threw"
  THEN [status |-> "fulfilled", value |-> TRUE]
  ELSE [status |-> "fulfilled", value |-> (fetchOutcome = "ok")]

\* How the promise of sendMessage settles: the catch turns a throwing fetch
\* into false, so the promise is always fulfilled.
sendMessage(fetchOutcome) ==
  IF fetchOutcome = "threw"
  THEN [status |-> "fulfilled", value |-> FALSE]
  ELSE [status |-> "fulfilled", value |-> (fetchOutcome = "ok")]

NoResults == [fulfilledTrue |-> 0, fulfilledFalse |-> 0, rejected |-> 0]

\* The results of Promise.allSettled are kept by kind: how many fulfilled with
\* true, fulfilled with false, rejected.
AddResult(res, r) ==
  IF r.status = "fulfilled"
  THEN IF r.value
       THEN [res EXCEPT !.fulfilledTrue = @ + 1]
       ELSE [res EXCEPT !.fulfilledFalse = @ + 1]
  ELSE [res EXCEPT !.rejected = @ + 1]

\* Variant: each chunk's counts replace the totals instead of adding to them.
CountResults_Overwrite(counts, res) ==
  [successful |-> res.fulfilledTrue,
   failed |-> res.fulfilledFalse + res.rejected]

\* The loop of lines 52-58 over the results of one chunk: fulfilled with a
\* true value counts as successful, everything else as failed.
CountResults(counts, res) ==
  [successful |-> counts.successful + res.fulfilledTrue,
   failed |-> counts.failed + res.fulfilledFalse + res.rejected]

InitBulk ==
  /\ fresh = EmptyResponse
  /\ cached = EmptyResponse
  /\ edits = 0
  /\ returned = << >>
  /\ chatIds \in RecipientLists
  /\ BulkNotCalled
  /\ CycleIdle
  /\ LaterIdle

\* What awaiting Promise.allSettled gives: it is fulfilled with the results
\* whatever they are, so the await of line 47 never throws.
allSettled(res) == [status |-> "fulfilled", value |-> res]

\* Variant: a chunk that ends exactly at the end of the list is also followed
\* by a pause.
MoreChunks_OrEnd(i, ids) == i + TELEGRAM_RATE_LIMITS.CHUNK_SIZE <= Len(ids)

\* Line 61: the chunk at offset i is not the last one of ids.
MoreChunks(i, ids) == i + TELEGRAM_RATE_LIMITS.CHUNK_SIZE < Len(ids)

\* Variant: every remaining recipient is sent to at once.
StartChunkOf_WholeRest(ids, from) ==
  LET c == Slice(ids, from, Len(ids))
  IN /\ loopI' = from
     /\ chunk' = c
     /\ pending' = Len(c)
     /\ results' = NoResults
     /\ hung' = 0
     /\ bulkPc' = "await"

\* Lines 44-49: the chunk of ids at offset from is cut out and a send is
\* started for each of its recipients, all before the await.
StartChunkOf(ids, from) ==
  LET c == Slice(ids, from, from + TELEGRAM_RATE_LIMITS.CHUNK_SIZE)
  IN /\ loopI' = from
     /\ chunk' = c
     /\ pending' = Len(c)
     /\ results' = NoResults
     /\ hung' = 0
     /\ bulkPc' = "await"

StartChunk(from) == StartChunkOf(chatIds, from)

\* Variant: the loop body runs once before the length is tested.
sendBulkMessages_BodyFirst(ids) ==
  /\ chatIds' = ids
  /\ successful' = 0
  /\ failed' = 0
  /\ pauses' = 0
  /\ sendsTrue' = 0
  /\ sendsNotOk' = 0
  /\ fetchThrew' = FALSE
  /\ StartChunkOf(ids, 0)
  /\ sent' = Slice(ids, 0, TELEGRAM_RATE_LIMITS.CHUNK_SIZE)
  /\ chunks' = << Slice(ids, 0, TELEGRAM_RATE_LIMITS.CHUNK_SIZE) >>
  /\ sinceLastPause' = sinceLastPause + Len(Slice(ids, 0, TELEGRAM_RATE_LIMITS.CHUNK_SIZE))

\* sendBulkMessages(ids, _, _) up to its first await: the counters are zeroed
\* and either the first chunk is started or, with no recipient, the counts
\* are returned at once.
sendBulkMessages(ids) ==
  /\ chatIds' = ids
  /\ successful' = 0
  /\ failed' = 0
  /\ pauses' = 0
  /\ sendsTrue' = 0
  /\ sendsNotOk' = 0
  /\ fetchThrew' = FALSE
  /\ IF 0 < Len(ids)
     THEN /\ StartChunkOf(ids, 0)
          /\ sent' = Slice(ids, 0, TELEGRAM_RATE_LIMITS.CHUNK_SIZE)
          /\ chunks' = << Slice(ids, 0, TELEGRAM_RATE_LIMITS.CHUNK_SIZE) >>
          /\ sinceLastPause' = sinceLastPause + Len(Slice(ids, 0, TELEGRAM_RATE_LIMITS.CHUNK_SIZE))
     ELSE /\ bulkPc' = "done"
          /\ loopI' = 0
          /\ chunk' = << >>
          /\ pending' = 0
          /\ results' = NoResults
          /\ sent' = << >>
          /\ chunks' = << >>
          /\ hung' = 0
          /\ UNCHANGED sinceLastPause

\* A call of sendBulkMessages on the recipient list.
CallSendBulk ==
  /\ bulkPc = "idle"
  /\ sendBulkMessages(chatIds)
  /\ UNCHANGED <<detectVars, cycleVars>>
  /\ UNCHANGED laterVars

\* One send of the current chunk settles, in any order and with any outcome;
\* a send whose fetch never settles is not one of them.
SettleSend ==
  /\ bulkPc = "await"
  /\ pending > hung
  /\ \E o \in FetchOutcomes :
       LET r == sendMessage(o)
       IN /\ results' = AddResult(results, r)
          /\ sendsTrue' = sendsTrue + (IF r.status = "fulfilled" /\ r.value THEN 1 ELSE 0)
          /\ sendsNotOk' = sendsNotOk + (IF o = "ok" THEN 0 ELSE 1)
          /\ fetchThrew' = (fetchThrew \/ o = "threw")
  /\ pending' = pending - 1
  /\ UNCHANGED <<detectVars, cycleVars, chatIds, bulkPc, loopI, chunk, successful, failed,
                 sent, pauses, chunks, sinceLastPause, hung>>
  /\ UNCHANGED laterVars

\* Variant: the await of the chunk ends as soon as it is reached, whether or
\* not every send has settled.
ChunkSettled_NoBarrier ==
  /\ bulkPc = "await"
  /\ successful' = successful + results.fulfilledTrue
  /\ failed' = failed + results.fulfilledFalse + results.rejected
  /\ IF MoreChunks(loopI, chatIds)
     THEN /\ bulkPc' = "pause"
          /\ pauses' = pauses + 1
     ELSE /\ bulkPc' = "done"
          /\ pauses' = pauses
  /\ UNCHANGED <<detectVars, cycleVars, chatIds, loopI, chunk, pending, results, sent,
                 sendsTrue, fetchThrew, sendsNotOk, chunks, sinceLastPause, hung>>
  /\ UNCHANGED laterVars

\* Variant: the call returns after the first chunk that had a failed send.
ChunkSettled_StopOnFailure ==
  /\ bulkPc = "await"
  /\ pending = 0
  /\ successful' = successful + results.fulfilledTrue
  /\ failed' = failed + results.fulfilledFalse + results.rejected
  /\ IF MoreChunks(loopI, chatIds) /\ results.fulfilledFalse + results.rejected = 0
     THEN /\ bulkPc' = "pause"
          /\ pauses' = pauses + 1
     ELSE /\ bulkPc' = "done"
          /\ pauses' = pauses
  /\ UNCHANGED <<detectVars, cycleVars, chatIds, loopI, chunk, pending, results, sent,
                 sendsTrue, fetchThrew, sendsNotOk, chunks, sinceLastPause, hung>>
  /\ UNCHANGED laterVars

\* Variant: the await of the chunk ends once every send that can settle has
\* settled, as if the sends raced a timeout.
ChunkSettled_IgnoresHung ==
  /\ bulkPc = "await"
  /\ pending = hung
  /\ LET counts == CountResults([successful |-> successful, failed |-> failed], results)
     IN /\ successful' = counts.successful
        /\ failed' = counts.failed + hung
  /\ IF MoreChunks(loopI, chatIds)
     THEN /\ bulkPc' = "pause"
          /\ pauses' = pauses + 1
     ELSE /\ bulkPc' = "done"
          /\ pauses' = pauses
  /\ UNCHANGED <<detectVars, cycleVars, chatIds, loopI, chunk, pending, results, sent,
                 sendsTrue, fetchThrew, sendsNotOk, chunks, sinceLastPause, hung>>
  /\ UNCHANGED laterVars

\* Lines 47-63 and the loop's end: all sends of the chunk have settled, the
\* results are counted, and the call pauses before the next chunk or returns.
\* A rejected await would leave the call by an exception.
ChunkSettled ==
  /\ bulkPc = "await"
  /\ pending = 0
  /\ LET awaited == allSettled(results)
     IN IF awaited.status = "rejected"
        THEN /\ bulkPc' = "threw"
             /\ UNCHANGED <<successful, failed, pauses>>
        ELSE /\ LET counts == CountResults([successful |-> successful, failed |-> failed],
                                           awaited.value)
                IN /\ successful' = counts.successful
                   /\ failed' = counts.failed
             /\ IF MoreChunks(loopI, chatIds)
                THEN /\ bulkPc' = "pause"
                     /\ pauses' = pauses + 1
                ELSE /\ bulkPc' = "done"
                     /\ pauses' = pauses
  /\ UNCHANGED <<detectVars, cycleVars, chatIds, loopI, chunk, pending, results, sent,
                 sendsTrue, fetchThrew, sendsNotOk, chunks, sinceLastPause, hung>>
  /\ UNCHANGED laterVars

\* The CHUNK_DELAY_MS timer fires: i += CHUNK_SIZE and the next chunk starts.
PauseElapsed ==
  /\ bulkPc = "pause"
  /\ StartChunk(loopI + TELEGRAM_RATE_LIMITS.CHUNK_SIZE)
  /\ sent' = sent \o chunk'
  /\ chunks' = Append(chunks, chunk')
  /\ sinceLastPause' = Len(chunk')
  /\ UNCHANGED <<detectVars, cycleVars, chatIds, successful, failed, pauses, sendsTrue,
                 fetchThrew, sendsNotOk>>
  /\ UNCHANGED laterVars

NextBulk ==
  \/ CallSendBulk
  \/ SettleSend
  \/ ChunkSettled
  \/ PauseElapsed

SpecBulk == InitBulk /\ [][NextBulk]_vars

\* Lines 12-21 of sendMessage: the fetch of one outstanding send never
\* settles (no timeout and no abort signal is passed), so neither does the
\* send.
SendHangs ==
  /\ bulkPc = "await"
  /\ hung < MaxHung
  /\ hung < pending
  /\ hung' = hung + 1
  /\ UNCHANGED <<detectVars, cycleVars, chatIds, bulkPc, loopI, chunk, pending, results,
                 successful, failed, sent, pauses, sendsTrue, fetchThrew, sendsNotOk,
                 chunks, sinceLastPause>>
  /\ UNCHANGED laterVars

NextBulkHang ==
  \/ CallSendBulk
  \/ SendHangs
  \/ SettleSend
  \/ ChunkSettled
  \/ PauseElapsed

\* The call under the JavaScript event loop: a send that can settle does, the
\* continuation of a settled await runs, and the pause timer fires.
SpecBulkFair ==
  /\ InitBulk
  /\ [][NextBulkHang]_vars
  /\ WF_vars(SettleSend)
  /\ WF_vars(ChunkSettled)
  /\ WF_vars(PauseElapsed)

(***************************************************************************)
(* The update cycle: checkScheduleUpdates and notifySubscribersOfChanges   *)
(* of src/src/services/scheduler.ts, with the cache and history tables and *)
(* the subscriber grouping of the database helpers.  Every action runs the *)
(* code from the return of one awaited call up to the next await.          *)
(***************************************************************************)
\* What fetchYasnoDataWithRetry may return as data: the snapshot published
\* before, the same schedule under a later date and timestamp, one zone with
\* another schedule, both zones with another schedule, one zone dropped, and
\* an empty object.
Published == <<Entry("1.1", BaseZone), Entry("2.1", BaseZone)>>

LaterZone ==
  ZoneData(DaySchedule("2025-11-22", SCHEDULE_STATUS.APPLIES, <<SlotA, SlotB>>),
           DaySchedule("2025-11-22", SCHEDULE_STATUS.WAITING, << >>),
           "2025-11-21T16:55:00")

ChangedZone == SetDay(BaseZone, "today", DaySchedule("2025-11-21", SCHEDULE_STATUS.APPLIES, <<SlotA>>))

FetchedResponses ==
  { Published,
    <<Entry("1.1", LaterZone), Entry("2.1", LaterZone)>>,
    SetZone(Published, "1.1", ChangedZone),
    <<Entry("1.1", ChangedZone), Entry("2.1", ChangedZone)>>,
    <<Entry("1.1", BaseZone)>>,
    EmptyResponse }

\* A row of table subscriptions with the chat_id of its user.
SubscriptionRow(z, c) == [zone |-> z, chat_id |-> c]

\* n1 subscribers of zone 1.1 followed by n2 subscribers of zone 2.1; a user
\* has one subscription, so the chat ids differ.
SubscriptionRows(n1, n2) ==
  [k \in 1..(n1 + n2) |-> SubscriptionRow(IF k <= n1 THEN "1.1" ELSE "2.1", k)]

\* The subscriber numbers tried for the two zones: nobody, one subscriber, a
\* full chunk and one, a chunk and one and a full chunk.
SubscriberCounts ==
  { <<0, 0>>, <<1, 0>>,
    <<TELEGRAM_RATE_LIMITS.CHUNK_SIZE, 1>>,
    <<TELEGRAM_RATE_LIMITS.CHUNK_SIZE + 1, TELEGRAM_RATE_LIMITS.CHUNK_SIZE>> }

SubscriptionTables == { SubscriptionRows(c[1], c[2]) : c \in SubscriberCounts }

\* The loop of lines 183-192: every zone that has a row gets the list of the
\* chat ids of its rows, in row order.
GroupByZone(rows) ==
  [z \in { rows[i].zone : i \in 1..Len(rows) } |->
     LET ofZone == SelectSeq(rows, LAMBDA sub : sub.zone = z)
     IN [k \in 1..Len(ofZone) |-> ofZone[k].chat_id]]

getAllSubscribersGroupedByZone(rows) ==
  IF Len(rows) = 0 THEN EmptyObject ELSE GroupByZone(rows)

\* The text of a history note and the zones it lists.
Note(text, zones) == [text |-> text, zones |-> zones]

\* The row saveToHistory inserts: changed_zones is the array, or null when it
\* is empty.
HistoryRow(freshData, zones, notes) ==
  [raw_data |-> freshData,
   changed_zones |-> IF Len(zones) > 0 THEN [array |-> zones] ELSE Null,
   notes |-> notes]

saveToHistory(rows, freshData, zones, notes) ==
  Append(rows, HistoryRow(freshData, zones, notes))

\* Variant: the fresh snapshot is inserted as one more row.
updateCache_Insert(table, freshData) ==
  table \cup { ScheduleCacheRow(Cardinality(table) + 1, freshData) }

\* update({raw_data: freshData}).eq('id', 1): every row with id 1 gets the
\* fresh snapshot, the other rows stay, and no row is added or removed.
updateCache(table, freshData) ==
  { IF row.id = 1 THEN ScheduleCacheRow(row.id, freshData) ELSE row : row \in table }

InitCycle ==
  /\ fresh = EmptyResponse
  /\ cached = EmptyResponse
  /\ edits = 0
  /\ returned = << >>
  /\ BulkIdle
  /\ cyclePc = "idle"
  /\ cycles = 0
  /\ fetchResult = "none"
  /\ changedZones = << >>
  /\ subscribersByZone = EmptyObject
  /\ zoneIdx = 0
  /\ scheduleCache \in ScheduleCacheTables
  /\ history = << >>
  /\ subscriptions \in SubscriptionTables
  /\ calls = << >>
  /\ logged = << >>
  /\ accesses = << >>
  /\ LaterIdle

\* The cron calls checkScheduleUpdates, no call being under way; the call
\* sleeps its random delay and starts fetchYasnoDataWithRetry.
StartCycle ==
  /\ cyclePc \in {"idle", "done"}
  /\ cycles < MaxCycles
  /\ cycles' = cycles + 1
  /\ cyclePc' = "fetch"
  /\ fetchResult' = "none"
  /\ fresh' = EmptyResponse
  /\ cached' = EmptyResponse
  /\ changedZones' = << >>
  /\ subscribersByZone' = EmptyObject
  /\ zoneIdx' = 0
  /\ chatIds' = << >>
  /\ bulkPc' = "idle"
  /\ loopI' = 0
  /\ chunk' = << >>
  /\ pending' = 0
  /\ results' = NoResults
  /\ successful' = 0
  /\ failed' = 0
  /\ sent' = << >>
  /\ pauses' = 0
  /\ sendsTrue' = 0
  /\ fetchThrew' = FALSE
  /\ sendsNotOk' = 0
  /\ chunks' = << >>
  /\ sinceLastPause' = 0
  /\ hung' = 0
  /\ calls' = << >>
  /\ logged' = << >>
  /\ accesses' = << >>
  /\ UNCHANGED <<edits, returned, scheduleCache, history, subscriptions>>
  /\ UNCHANGED laterVars

\* Lines 30-40: fetchYasnoDataWithRetry returns null, and the failure is sent
\* to the history, or it returns data, and the cache is asked for.
FetchReturns ==
  /\ cyclePc = "fetch"
  /\ \/ /\ fetchResult' = "null"
        /\ cyclePc' = "saveFailure"
        /\ UNCHANGED fresh
     \/ \E freshData \in FetchedResponses :
          /\ fetchResult' = "data"
          /\ fresh' = freshData
          /\ cyclePc' = "readCache"
  /\ UNCHANGED <<cached, edits, returned, bulkVars, cycles, changedZones, subscribersByZone,
                 zoneIdx, calls, logged, scheduleCache, history, subscriptions>>
  /\ accesses' = Append(accesses, "fetch")
  /\ UNCHANGED laterVars

\* Variant: the empty object passed to saveToHistory is also written to the
\* cache row.
FailureSaved_CacheEmptied ==
  /\ cyclePc = "saveFailure"
  /\ history' = saveToHistory(history, EmptyResponse, << >>, Note("API fetch failed", << >>))
  /\ scheduleCache' = updateCache(scheduleCache, EmptyResponse)
  /\ cyclePc' = "done"
  /\ UNCHANGED <<detectVars, bulkVars, cycles, fetchResult, changedZones, subscribersByZone,
                 zoneIdx, calls, logged, subscriptions>>
  /\ accesses' = Append(accesses, "write")
  /\ UNCHANGED laterVars

\* Variant: the cache is asked for before the failure of the fetch is looked
\* at, so a cycle whose fetch failed has read the cache too.
FailureSaved_ReadsCache ==
  /\ cyclePc = "saveFailure"
  /\ history' = saveToHistory(history, EmptyResponse, << >>, Note("API fetch failed", << >>))
  /\ cyclePc' = "done"
  /\ UNCHANGED <<detectVars, bulkVars, cycles, fetchResult, changedZones, subscribersByZone,
                 zoneIdx, calls, logged, scheduleCache, subscriptions>>
  /\ accesses' = Append(accesses, "read")
  /\ UNCHANGED laterVars

\* Lines 35-36: the failure note is in the history and the call returns.
FailureSaved ==
  /\ cyclePc = "saveFailure"
  /\ history' = saveToHistory(history, EmptyResponse, << >>, Note("API fetch failed", << >>))
  /\ cyclePc' = "done"
  /\ UNCHANGED <<detectVars, bulkVars, cycles, fetchResult, changedZones, subscribersByZone,
                 zoneIdx, calls, logged, scheduleCache, subscriptions>>
  /\ UNCHANGED accesses
  /\ UNCHANGED laterVars

\* Lines 40-51: getCachedData returns, the changed zones are detected and
\* saveToHistory is called.
CacheRead ==
  /\ cyclePc = "readCache"
  /\ cached' = getCachedData(SelectSingle(scheduleCache))
  /\ changedZones' = detectChangedZones(fresh, cached')
  /\ cyclePc' = "saveHistory"
  /\ UNCHANGED <<fresh, edits, returned, bulkVars, cycles, fetchResult, subscribersByZone,
                 zoneIdx, calls, logged, scheduleCache, history, subscriptions>>
  /\ accesses' = Append(accesses, "read")
  /\ UNCHANGED laterVars

\* Variant: the record is only written when a zone has changed.
HistorySaved_OnlyChanges ==
  /\ cyclePc = "saveHistory"
  /\ history' = IF Len(changedZones) = 0
                THEN history
                ELSE saveToHistory(history, fresh, changedZones,
                                   Note("Changes in zones", changedZones))
  /\ cyclePc' = IF Len(changedZones) = 0 THEN "done" ELSE "readSubscribers"
  /\ UNCHANGED <<detectVars, bulkVars, cycles, fetchResult, changedZones, subscribersByZone,
                 zoneIdx, calls, logged, scheduleCache, subscriptions>>
  /\ UNCHANGED accesses
  /\ UNCHANGED laterVars

\* Lines 46-61 and 92: the record of the cycle is in the history; without a
\* changed zone the call returns, otherwise the subscribers are asked for.
HistorySaved ==
  /\ cyclePc = "saveHistory"
  /\ history' = saveToHistory(history, fresh, changedZones,
                              IF Len(changedZones) = 0
                              THEN Note("No changes detected", << >>)
                              ELSE Note("Changes in zones", changedZones))
  /\ cyclePc' = IF Len(changedZones) = 0 THEN "done" ELSE "readSubscribers"
  /\ UNCHANGED <<detectVars, bulkVars, cycles, fetchResult, changedZones, subscribersByZone,
                 zoneIdx, calls, logged, scheduleCache, subscriptions>>
  /\ UNCHANGED accesses
  /\ UNCHANGED laterVars

\* The slots of one type, as the lines formatDay writes for them: start and
\* end of each, in slot order.
SlotLines(slots, type) ==
  LET ofType == SelectSeq(slots, LAMBDA slot : slot.type = type)
  IN [k \in 1..Len(ofType) |-> <<ofType[k].start, ofType[k].end>>]

\* formatDay: what the text of one day shows, which is its label, its date,
\* whether the schedule applies, the outages and the supply periods.
formatDay(dayData, label) ==
  [label |-> label,
   date |-> dayData.date,
   applies |-> (dayData.status = SCHEDULE_STATUS.APPLIES),
   outages |-> SlotLines(dayData.slots, SLOT_TYPE.OUTAGE),
   power |-> SlotLines(dayData.slots, SLOT_TYPE.POWER)]

\* formatUpdateTimestamp: no footer without updatedOn.
formatUpdateTimestamp(updatedOn) ==
  IF updatedOn = "undefined" THEN "" ELSE updatedOn

\* formatScheduleMessage: what the text shows, which is the header of an
\* update or of the current schedule, the zone, the two days and the footer.
formatScheduleMessage(zone, data, isUpdate) ==
  [header |-> IF isUpdate THEN "updated" ELSE "current",
   zone |-> zone,
   today |-> formatDay(data.today, "today"),
   tomorrow |-> formatDay(data.tomorrow, "tomorrow"),
   footer |-> formatUpdateTimestamp(data.updatedOn)]

\* One call sendBulkMessages(chatIds, message, token) made for a zone.
BulkCall(zone, ids, text) == [zone |-> zone, chatIds |-> ids, text |-> text]

\* !chatIds || chatIds.length === 0, negated.
HasSubscribers(byZone, zone) == zone \in DOMAIN byZone /\ Len(byZone[zone]) > 0

\* Variant: the loop runs over every zone of the fresh snapshot instead of
\* the changed zones.
NotifyNextZone_EveryZone(idx, byZone) ==
  LET zones == ObjectKeys(fresh)
      rest == { k \in idx..Len(zones) : HasSubscribers(byZone, zones[k]) }
  IN IF rest # {}
     THEN LET k == CHOOSE k \in rest : \A j \in rest : k <= j
              zone == zones[k]
          IN /\ zoneIdx' = k
             /\ sendBulkMessages(byZone[zone])
             /\ calls' = Append(calls, BulkCall(zone, byZone[zone],
                                                 formatScheduleMessage(zone, Get(fresh, zone), TRUE)))
             /\ cyclePc' = "notify"
     ELSE /\ zoneIdx' = Len(zones) + 1
          /\ cyclePc' = "updateCache"
          /\ UNCHANGED <<bulkVars, calls>>

\* Variant: the message of a zone the cache knows is built from the cached
\* data of the zone.
NotifyNextZone_CachedText(idx, byZone) ==
  LET rest == { k \in idx..Len(changedZones) : HasSubscribers(byZone, changedZones[k]) }
  IN IF rest # {}
     THEN LET k == CHOOSE k \in rest : \A j \in rest : k <= j
              zone == changedZones[k]
              data == IF HasKey(cached, zone) THEN Get(cached, zone) ELSE Get(fresh, zone)
          IN /\ zoneIdx' = k
             /\ sendBulkMessages(byZone[zone])
             /\ calls' = Append(calls, BulkCall(zone, byZone[zone],
                                                 formatScheduleMessage(zone, data, TRUE)))
             /\ cyclePc' = "notify"
     ELSE /\ zoneIdx' = Len(changedZones) + 1
          /\ cyclePc' = "updateCache"
          /\ UNCHANGED <<bulkVars, calls>>

\* The loop of lines 95-112 from position idx of changedZones on: zones
\* without subscribers are skipped, sendBulkMessages is called for the first
\* zone that has some, and after the last zone updateCache is called.
NotifyNextZone(idx, byZone) ==
  LET rest == { k \in idx..Len(changedZones) : HasSubscribers(byZone, changedZones[k]) }
  IN IF rest # {}
     THEN LET k == CHOOSE k \in rest : \A j \in rest : k <= j
              zone == changedZones[k]
          IN /\ zoneIdx' = k
             /\ sendBulkMessages(byZone[zone])
             /\ calls' = Append(calls, BulkCall(zone, byZone[zone],
                                                 formatScheduleMessage(zone, Get(fresh, zone), TRUE)))
             /\ cyclePc' = "notify"
     ELSE /\ zoneIdx' = Len(changedZones) + 1
          /\ cyclePc' = "updateCache"
          /\ UNCHANGED <<bulkVars, calls>>

\* handlers.ts:206 (/now) and 245 (zone selection): what a reader of the cache
\* gets from the table as it is.
ReaderSees(table) == getCachedData(SelectSingle(table))

\* Variant: the cache row is rewritten before the notifications go out.
SubscribersRead_CacheFirst ==
  /\ cyclePc = "readSubscribers"
  /\ subscribersByZone' = getAllSubscribersGroupedByZone(subscriptions)
  /\ NotifyNextZone(1, subscribersByZone')
  /\ scheduleCache' = updateCache(scheduleCache, fresh)
  /\ UNCHANGED <<detectVars, cycles, fetchResult, changedZones, history,
                 subscriptions, logged>>
  /\ accesses' = Append(accesses, "write")
  /\ UNCHANGED laterVars

\* Lines 92-109: getAllSubscribersGroupedByZone returns and the loop starts.
SubscribersRead ==
  /\ cyclePc = "readSubscribers"
  /\ subscribersByZone' = getAllSubscribersGroupedByZone(subscriptions)
  /\ NotifyNextZone(1, subscribersByZone')
  /\ UNCHANGED <<detectVars, cycles, fetchResult, changedZones, scheduleCache, history,
                 subscriptions, logged>>
  /\ UNCHANGED accesses
  /\ UNCHANGED laterVars

\* Variant: the loop and the cycle end when a call reports a failed send.
BulkReturned_AbortOnFailure ==
  /\ cyclePc = "notify"
  /\ bulkPc = "done"
  /\ logged' = Append(logged, [zone |-> changedZones[zoneIdx],
                               delivered |-> successful > 0])
  /\ IF failed > 0
     THEN /\ cyclePc' = "done"
          /\ UNCHANGED <<bulkVars, zoneIdx, calls>>
     ELSE NotifyNextZone(zoneIdx + 1, subscribersByZone)
  /\ UNCHANGED <<detectVars, cycles, fetchResult, changedZones, subscribersByZone,
                 scheduleCache, history, subscriptions>>
  /\ UNCHANGED accesses
  /\ UNCHANGED laterVars

\* Lines 109-112 and 64: sendBulkMessages has returned for one zone, its
\* result is logged and the loop goes on.
BulkReturned ==
  /\ cyclePc = "notify"
  /\ bulkPc = "done"
  /\ logged' = Append(logged, [zone |-> changedZones[zoneIdx],
                               delivered |-> successful > 0])
  /\ NotifyNextZone(zoneIdx + 1, subscribersByZone)
  /\ UNCHANGED <<detectVars, cycles, fetchResult, changedZones, subscribersByZone,
                 scheduleCache, history, subscriptions>>
  /\ UNCHANGED accesses
  /\ UNCHANGED laterVars

\* Line 64: the cache row holds the fresh snapshot and the call returns.
CacheUpdated ==
  /\ cyclePc = "updateCache"
  /\ scheduleCache' = updateCache(scheduleCache, fresh)
  /\ cyclePc' = "done"
  /\ UNCHANGED <<detectVars, bulkVars, cycles, fetchResult, changedZones, subscribersByZone,
                 zoneIdx, calls, logged, history, subscriptions>>
  /\ accesses' = Append(accesses, "write")
  /\ UNCHANGED laterVars

NextCycle ==
  \/ StartCycle
  \/ FetchReturns
  \/ FailureSaved
  \/ CacheRead
  \/ HistorySaved
  \/ SubscribersRead
  \/ BulkReturned
  \/ CacheUpdated
  \/ SettleSend
  \/ ChunkSettled
  \/ PauseElapsed

SpecCycle == InitCycle /\ [][NextCycle]_vars

(***************************************************************************)
(* Invocations of checkScheduleUpdates next to each other.  Nothing in the *)
(* scheduled handler or in the cycle keeps a second invocation from        *)
(* starting while the first one runs; they share the cache row, the        *)
(* history table and the subscriptions.  Each invocation takes one step    *)
(* per await; a call of sendBulkMessages is one step here, its sends being *)
(* those of the bulk sender above.                                         *)
(***************************************************************************)
Running(r) == runs[r].pc \notin {"idle", "done"}

\* What the site may answer while the invocations run: the published schedule,
\* one with zone 1.1 changed and one with both zones changed.
OverlapResponses ==
  { Published,
    SetZone(Published, "1.1", ChangedZone),
    <<Entry("1.1", ChangedZone), Entry("2.1", ChangedZone)>> }

\* The subscriptions tables tried: empty, one subscriber of zone 1.1, two of
\* zone 1.1 and one of zone 2.1.
OverlapSubscriptions ==
  { SubscriptionRows(0, 0), SubscriptionRows(1, 0), SubscriptionRows(2, 1) }

\* What the variables of this part leave alone.
overlapFrame ==
  <<detectVars, bulkVars, cyclePc, cycles, fetchResult, changedZones, subscribersByZone,
    zoneIdx, subscriptions, calls, logged, accesses, subsVars, cmdVars, retryVars>>

\* The cron calls checkScheduleUpdates (scheduler.ts:18-30).
RunStart(r) ==
  /\ runs[r].pc = "idle"
  /\ runs' = [q \in RunIds |->
                IF q = r
                THEN [IdleRun EXCEPT !.pc = "fetch",
                                     !.overlapped = { o \in RunIds : Running(o) }]
                ELSE IF Running(q)
                     THEN [runs[q] EXCEPT !.overlapped = @ \cup {r}]
                     ELSE runs[q]]
  /\ UNCHANGED <<overlapFrame, scheduleCache, history, cacheWrites>>

\* Lines 30-37: the fetch returns null or a response.
RunFetchReturns(r) ==
  /\ runs[r].pc = "fetch"
  /\ \/ runs' = [runs EXCEPT ![r].pc = "saveFailure"]
     \/ \E freshData \in OverlapResponses :
          runs' = [runs EXCEPT ![r].freshData = freshData, ![r].pc = "readCache"]
  /\ UNCHANGED <<overlapFrame, scheduleCache, history, cacheWrites>>

\* Lines 32-36: the failure is recorded and the invocation ends.
RunFailureSaved(r) ==
  /\ runs[r].pc = "saveFailure"
  /\ history' = saveToHistory(history, EmptyResponse, << >>, Note("API fetch failed", << >>))
  /\ runs' = [runs EXCEPT ![r].pc = "done"]
  /\ UNCHANGED <<overlapFrame, scheduleCache, cacheWrites>>

\* Lines 40-43: the cache row is read as it is now and the changed zones are
\* detected against it.
RunCacheRead(r) ==
  /\ runs[r].pc = "readCache"
  /\ runs' = [runs EXCEPT
                ![r].changedZones =
                   detectChangedZones(runs[r].freshData,
                                      getCachedData(SelectSingle(scheduleCache))),
                ![r].readAt = cacheWrites,
                ![r].pc = "saveHistory"]
  /\ UNCHANGED <<overlapFrame, scheduleCache, history, cacheWrites>>

\* Lines 46-56: the audit record is written; without a changed zone the
\* invocation ends.
RunHistorySaved(r) ==
  /\ runs[r].pc = "saveHistory"
  /\ history' = saveToHistory(history, runs[r].freshData, runs[r].changedZones,
                              IF Len(runs[r].changedZones) = 0
                              THEN Note("No changes detected", << >>)
                              ELSE Note("Changes in zones", runs[r].changedZones))
  /\ runs' = [runs EXCEPT ![r].pc = IF Len(runs[r].changedZones) = 0
                                    THEN "done" ELSE "readSubscribers"]
  /\ UNCHANGED <<overlapFrame, scheduleCache, cacheWrites>>

\* Lines 95-112: the loop goes on from position idx to the next changed zone
\* with recipients and calls sendBulkMessages for it, or ends.
RunNotifyNext(run, idx, byZone) ==
  LET rest == { k \in idx..Len(run.changedZones) : HasSubscribers(byZone, run.changedZones[k]) }
  IN IF rest # {}
     THEN LET k == CHOOSE k \in rest : \A o \in rest : k <= o
              zone == run.changedZones[k]
          IN [run EXCEPT !.idx = k,
                         !.notified = Append(@, [zone |-> zone, chatIds |-> byZone[zone],
                                                 data |-> Get(run.freshData, zone)]),
                         !.pc = "notify"]
     ELSE [run EXCEPT !.idx = Len(run.changedZones) + 1, !.pc = "updateCache"]

\* Lines 92-95: the subscribers are read and the loop starts.
RunSubscribersRead(r) ==
  /\ runs[r].pc = "readSubscribers"
  /\ LET byZone == getAllSubscribersGroupedByZone(subscriptions)
     IN runs' = [runs EXCEPT
                   ![r] = RunNotifyNext([runs[r] EXCEPT !.subscribersByZone = byZone],
                                        1, byZone)]
  /\ UNCHANGED <<overlapFrame, scheduleCache, history, cacheWrites>>

\* Lines 109-112: sendBulkMessages has returned for one zone.
RunBulkReturned(r) ==
  /\ runs[r].pc = "notify"
  /\ runs' = [runs EXCEPT
                ![r] = RunNotifyNext(runs[r], runs[r].idx + 1, runs[r].subscribersByZone)]
  /\ UNCHANGED <<overlapFrame, scheduleCache, history, cacheWrites>>

\* Variant: the invocation ends without rewriting the cache row.
RunCacheUpdated_NoWrite(r) ==
  /\ runs[r].pc = "updateCache"
  /\ runs' = [runs EXCEPT ![r].pc = "done"]
  /\ UNCHANGED <<overlapFrame, scheduleCache, history, cacheWrites>>

\* Lines 63-64: the cache row is rewritten with this invocation's freshData.
RunCacheUpdated(r) ==
  /\ runs[r].pc = "updateCache"
  /\ scheduleCache' = updateCache(scheduleCache, runs[r].freshData)
  /\ cacheWrites' = cacheWrites + 1
  /\ runs' = [runs EXCEPT ![r].pc = "done"]
  /\ UNCHANGED <<overlapFrame, history>>

\* No invocation has started; the cache row holds {} or the published
\* schedule, and a few chats are subscribed.
InitOverlap ==
  /\ fresh = EmptyResponse
  /\ cached = EmptyResponse
  /\ edits = 0
  /\ returned = << >>
  /\ BulkIdle
  /\ cyclePc = "idle"
  /\ cycles = 0
  /\ fetchResult = "none"
  /\ changedZones = << >>
  /\ subscribersByZone = EmptyObject
  /\ zoneIdx = 0
  /\ scheduleCache \in ScheduleCacheTables
  /\ history = << >>
  /\ subscriptions \in OverlapSubscriptions
  /\ calls = << >>
  /\ logged = << >>
  /\ accesses = << >>
  /\ LaterIdle

NextOverlap ==
  \/ \E r \in RunIds : RunStart(r)
  \/ \E r \in RunIds : RunFetchReturns(r)
  \/ \E r \in RunIds : RunFailureSaved(r)
  \/ \E r \in RunIds : RunCacheRead(r)
  \/ \E r \in RunIds : RunHistorySaved(r)
  \/ \E r \in RunIds : RunSubscribersRead(r)
  \/ \E r \in RunIds : RunBulkReturned(r)
  \/ \E r \in RunIds : RunCacheUpdated(r)

SpecOverlap == InitOverlap /\ [][NextOverlap]_vars

(***************************************************************************)
(* Subscribing and unsubscribing: subscribeUser and unsubscribeUser of     *)
(* src/src/database/subscriptions.ts with ensureUser and getUserId of the  *)
(* users helpers, on the tables users and subscriptions of the schema.     *)
(* Calls come from separate webhook requests and may interleave; a call    *)
(* takes one step per await.                                               *)
(***************************************************************************)
\* The chats that write to the bot and the zones they pick.
ChatIds == {1, 2}
Zones == {"1.1", "2.1"}

\* A row of users: id BIGSERIAL PRIMARY KEY, chat_id BIGINT UNIQUE NOT NULL.
UserRow(id, chatId) == [id |-> id, chat_id |-> chatId]

\* A row of subscriptions: user_id with UNIQUE(user_id), zone.
UserSubscription(userId, zone) == [user_id |-> userId, zone |-> zone]

\* select('id').eq('chat_id', chatId).single(): the id of the one matching
\* row, or null, written 0 (ids start at 1).
SelectUserId(table, chatId) ==
  LET matching == { u \in table : u.chat_id = chatId }
  IN IF Cardinality(matching) = 1 THEN (CHOOSE u \in matching : TRUE).id ELSE 0

\* Variant: a plain insert into a table without the unique constraint.
upsert_PlainInsert(table, userId, zone) == table \cup { UserSubscription(userId, zone) }

\* subscriptions.ts:22-28: upsert with onConflict 'user_id': the row of the
\* user is replaced when there is one and inserted otherwise.
upsert(table, userId, zone) ==
  { s \in table : s.user_id # userId } \cup { UserSubscription(userId, zone) }

\* subscriptions.ts:56-59: delete().eq('user_id', userId).
deleteSubscription(table, userId) == { s \in table : s.user_id # userId }

\* A call in progress: what was called with which arguments, where it is, the
\* userId it holds and what it returned.
Op(kind, chatId, zone, pc) ==
  [kind |-> kind, chatId |-> chatId, zone |-> zone, pc |-> pc, userId |-> 0,
   result |-> "pending"]

OpIds == 1..MaxOps

\* Call o has been made and is at position pc.
OpAt(o, pc) == o <= Len(ops) /\ ops[o].pc = pc

\* What the calls of this part leave alone.
subsFrame == <<detectVars, bulkVars, cycleVars, overlapVars, cmdVars, retryVars>>

\* subscribeUser(supabase, chatId, zone) is called.
StartSubscribe(chatId, zone) ==
  /\ Len(ops) < MaxOps
  /\ ops' = Append(ops, Op("subscribe", chatId, zone, "selectUser"))
  /\ UNCHANGED <<subsFrame, users, nextUserId, userSubs, lastSubscribed>>

\* unsubscribeUser(supabase, chatId) is called.
StartUnsubscribe(chatId) ==
  /\ Len(ops) < MaxOps
  /\ ops' = Append(ops, Op("unsubscribe", chatId, "", "getUserId"))
  /\ UNCHANGED <<subsFrame, users, nextUserId, userSubs, lastSubscribed>>

\* ensureUser, lines 9-19: the select returns the user's row or none.
UserSelected(o) ==
  /\ OpAt(o, "selectUser")
  /\ LET id == SelectUserId(users, ops[o].chatId)
     IN ops' = [ops EXCEPT ![o].userId = id,
                           ![o].pc = IF id # 0 THEN "touchUser" ELSE "insertUser"]
  /\ UNCHANGED <<subsFrame, users, nextUserId, userSubs, lastSubscribed>>

\* ensureUser, lines 19-27: last_interaction_at of the row is updated and
\* the id is returned; the row keeps its id and chat_id.
UserTouched(o) ==
  /\ OpAt(o, "touchUser")
  /\ ops' = [ops EXCEPT ![o].pc = "upsert"]
  /\ UNCHANGED <<subsFrame, users, nextUserId, userSubs, lastSubscribed>>

\* ensureUser, lines 29-41, and subscribeUser, lines 19-21: the insert adds
\* the user, or fails on UNIQUE(chat_id) when another call has added the chat
\* meanwhile; ensureUser then returns null and subscribeUser false.
UserInserted(o) ==
  /\ OpAt(o, "insertUser")
  /\ nextUserId' = nextUserId + 1
  /\ IF \E u \in users : u.chat_id = ops[o].chatId
     THEN /\ ops' = [ops EXCEPT ![o].pc = "returned", ![o].result = "false"]
          /\ UNCHANGED users
     ELSE /\ users' = users \cup { UserRow(nextUserId, ops[o].chatId) }
          /\ ops' = [ops EXCEPT ![o].userId = nextUserId, ![o].pc = "upsert"]
  /\ UNCHANGED <<subsFrame, userSubs, lastSubscribed>>

\* subscribeUser, lines 23-39: the upsert is done and true returned, or it
\* fails and false is returned.
SubscriptionUpserted(o) ==
  /\ OpAt(o, "upsert")
  /\ \/ /\ userSubs' = upsert(userSubs, ops[o].userId, ops[o].zone)
        /\ lastSubscribed' =
             [c \in DOMAIN lastSubscribed \cup {ops[o].chatId} |->
                IF c = ops[o].chatId THEN ops[o].zone ELSE lastSubscribed[c]]
        /\ ops' = [ops EXCEPT ![o].pc = "returned", ![o].result = "true"]
     \/ /\ ops' = [ops EXCEPT ![o].pc = "returned", ![o].result = "false"]
        /\ UNCHANGED <<userSubs, lastSubscribed>>
  /\ UNCHANGED <<subsFrame, users, nextUserId>>

\* unsubscribeUser, lines 51-54, with getUserId: the id of the chat's user is
\* read; without a user false is returned.
UserIdRead(o) ==
  /\ OpAt(o, "getUserId")
  /\ LET id == SelectUserId(users, ops[o].chatId)
     IN ops' = [ops EXCEPT ![o].userId = id,
                           ![o].pc = IF id # 0 THEN "delete" ELSE "returned",
                           ![o].result = IF id # 0 THEN "pending" ELSE "false"]
  /\ UNCHANGED <<subsFrame, users, nextUserId, userSubs, lastSubscribed>>

\* Variant: the user's row is removed together with the subscription.
SubscriptionDeleted_WithUser(o) ==
  /\ OpAt(o, "delete")
  /\ userSubs' = deleteSubscription(userSubs, ops[o].userId)
  /\ users' = { u \in users : u.id # ops[o].userId }
  /\ ops' = [ops EXCEPT ![o].pc = "returned", ![o].result = "true"]
  /\ UNCHANGED <<subsFrame, nextUserId, lastSubscribed>>

\* unsubscribeUser, lines 56-66: the subscription of the user is deleted and
\* true returned, or the delete fails and false is returned.
SubscriptionDeleted(o) ==
  /\ OpAt(o, "delete")
  /\ \/ /\ userSubs' = deleteSubscription(userSubs, ops[o].userId)
        /\ ops' = [ops EXCEPT ![o].pc = "returned", ![o].result = "true"]
     \/ /\ ops' = [ops EXCEPT ![o].pc = "returned", ![o].result = "false"]
        /\ UNCHANGED userSubs
  /\ UNCHANGED <<subsFrame, users, nextUserId, lastSubscribed>>

\* The tables as the schema creates them.
InitSubs ==
  /\ fresh = EmptyResponse
  /\ cached = EmptyResponse
  /\ edits = 0
  /\ returned = << >>
  /\ BulkIdle
  /\ CycleIdle
  /\ LaterIdle

NextSubs ==
  \/ \E chatId \in ChatIds, zone \in Zones : StartSubscribe(chatId, zone)
  \/ \E chatId \in ChatIds : StartUnsubscribe(chatId)
  \/ \E o \in OpIds : UserSelected(o)
  \/ \E o \in OpIds : UserTouched(o)
  \/ \E o \in OpIds : UserInserted(o)
  \/ \E o \in OpIds : SubscriptionUpserted(o)
  \/ \E o \in OpIds : UserIdRead(o)
  \/ \E o \in OpIds : SubscriptionDeleted(o)

SpecSubs == InitSubs /\ [][NextSubs]_vars

(***************************************************************************)
(* The /broadcast command: handleCommand and handleBroadcastCommand of     *)
(* src/src/telegram/handlers.ts with getAllSubscribers of the database     *)
(* helpers.  A command text is the sequence of its characters.  The        *)
(* broadcast goes out through the bulk sender above.                       *)
(***************************************************************************)
ADMIN_CHAT_ID == 67306153

\* '/broadcast ' with its trailing blank.
BroadcastPrefix == <<"/", "b", "r", "o", "a", "d", "c", "a", "s", "t", " ">>

\* String.prototype.startsWith and substring(from) on character sequences.
StartsWith(str, prefix) ==
  Len(str) >= Len(prefix) /\ SubSeq(str, 1, Len(prefix)) = prefix

Substring(str, from) == SubSeq(str, from + 1, Len(str))

\* The command texts tried: a broadcast with a text, one with an empty text,
\* and '/broadcast' alone, which is no broadcast command.
Commands ==
  { BroadcastPrefix \o <<"h", "i">>,
    BroadcastPrefix,
    SubSeq(BroadcastPrefix, 1, Len(BroadcastPrefix) - 1) }

\* The chats the command comes from: the administrator's, a subscribed chat
\* and a chat unknown to the bot.
Senders == { ADMIN_CHAT_ID, 1, ADMIN_CHAT_ID + 1 }

\* The tables tried: n subscribed users with chat ids 1..n, one user who has
\* no subscription, and the administrator as a user, subscribed or not.
BroadcastUsers(n) ==
  { UserRow(k, k) : k \in 1..(n + 1) } \cup { UserRow(n + 2, ADMIN_CHAT_ID) }

BroadcastSubscriptions(n, adminToo) ==
  { UserSubscription(k, IF k % 2 = 1 THEN "1.1" ELSE "2.1") : k \in 1..n }
    \cup (IF adminToo THEN { UserSubscription(n + 2, "1.1") } ELSE {})

BroadcastCounts == { 0, 1, TELEGRAM_RATE_LIMITS.CHUNK_SIZE + 1 }

\* The elements of a set of numbers as a list, in ascending order.
Ascending(set) ==
  [k \in 1..Cardinality(set) |->
     CHOOSE c \in set : Cardinality({ d \in set : d < c }) = k - 1]

\* subscriptions.ts:208-252: the rows of subscriptions with the chat_id of
\* their user, rows without a user left out; rows are taken by user_id.
getAllSubscribers(subs, userRows) ==
  LET ids == Ascending({ s.user_id : s \in subs })
      chatOf(id) == LET mapped == { u \in userRows : u.id = id }
                    IN IF mapped = {} THEN 0 ELSE (CHOOSE u \in mapped : TRUE).chat_id
      zoneOf(id) == (CHOOSE s \in subs : s.user_id = id).zone
      known == SelectSeq(ids, LAMBDA id : chatOf(id) # 0)
  IN [k \in 1..Len(known) |-> SubscriptionRow(zoneOf(known[k]), chatOf(known[k]))]

\* [...new Set(list)]: the first occurrence of every element, in list order.
Unique(list) ==
  LET firsts == { i \in 1..Len(list) : \A j \in 1..(i - 1) : list[j] # list[i] }
      at == Ascending(firsts)
  IN [k \in 1..Len(at) |-> list[at[k]]]

\* Variant: every chat may broadcast.
IsAdmin_AnyChat(chatId) == TRUE

\* handlers.ts:149: the sender is the administrator.
IsAdmin(chatId) == chatId = ADMIN_CHAT_ID

\* A sendMessage to the sender of the command.
Reply(to, kind) == [to |-> to, kind |-> kind]

\* What the command handler leaves alone.
cmdFrame == <<detectVars, cycleVars, overlapVars, subsVars, retryVars>>

\* handlers.ts:23-28, 46-51 and 147-155: an update with a text arrives.  A
\* text that does not start with '/broadcast ' goes to the switch; a
\* broadcast from another chat than the administrator's returns at once; from
\* the administrator the first reply is sent.
CommandReceived(chatId, command) ==
  /\ cmd.pc = "idle"
  /\ IF ~StartsWith(command, BroadcastPrefix)
     THEN cmd' = [cmd EXCEPT !.pc = "switch", !.chatId = chatId, !.command = command]
     ELSE LET message == Substring(command, Len(BroadcastPrefix))
          IN IF ~IsAdmin(chatId)
             THEN cmd' = [cmd EXCEPT !.pc = "done", !.chatId = chatId,
                                     !.command = command, !.message = message]
             ELSE cmd' = [cmd EXCEPT !.pc = "announce", !.chatId = chatId,
                                     !.command = command, !.message = message,
                                     !.replies = Append(@, Reply(chatId, "started"))]
  /\ UNCHANGED <<cmdFrame, bulkVars>>

\* handlers.ts:155-172: the first reply has settled and getAllSubscribers has
\* returned; without subscribers the sender is told so, otherwise
\* sendBulkMessages is called with the distinct chat ids and the message.
SubscribersListed ==
  /\ cmd.pc = "announce"
  /\ LET subscribers == getAllSubscribers(userSubs, users)
     IN IF Len(subscribers) = 0
        THEN /\ cmd' = [cmd EXCEPT !.pc = "reply",
                                   !.replies = Append(@, Reply(cmd.chatId, "nobody"))]
             /\ UNCHANGED bulkVars
        ELSE LET uniqueChatIds == Unique([k \in 1..Len(subscribers) |-> subscribers[k].chat_id])
             IN /\ cmd' = [cmd EXCEPT !.pc = "bulk", !.uniqueChatIds = uniqueChatIds,
                                      !.bulkText = cmd.message]
                /\ sendBulkMessages(uniqueChatIds)
  /\ UNCHANGED cmdFrame

\* handlers.ts:172-181: sendBulkMessages has returned and the counts are sent
\* to the sender.
BroadcastReturned ==
  /\ cmd.pc = "bulk"
  /\ bulkPc = "done"
  /\ cmd' = [cmd EXCEPT !.pc = "reply", !.replies = Append(@, Reply(cmd.chatId, "finished"))]
  /\ UNCHANGED <<cmdFrame, bulkVars>>

\* The last reply has settled and the handler returns.
ReplySettled ==
  /\ cmd.pc = "reply"
  /\ cmd' = [cmd EXCEPT !.pc = "done"]
  /\ UNCHANGED <<cmdFrame, bulkVars>>

\* The tables hold some users and subscriptions; no command has arrived.
InitBroadcast ==
  /\ fresh = EmptyResponse
  /\ cached = EmptyResponse
  /\ edits = 0
  /\ returned = << >>
  /\ BulkIdle
  /\ CycleIdle
  /\ runs = [r \in RunIds |-> IdleRun]
  /\ cacheWrites = 0
  /\ \E n \in BroadcastCounts, adminToo \in BOOLEAN :
       /\ users = BroadcastUsers(n)
       /\ nextUserId = n + 3
       /\ userSubs = BroadcastSubscriptions(n, adminToo)
  /\ ops = << >>
  /\ lastSubscribed = [c \in {} |-> ""]
  /\ cmd = IdleCmd
  /\ retry = IdleRetry

NextBroadcast ==
  \/ \E chatId \in Senders, command \in Commands : CommandReceived(chatId, command)
  \/ SubscribersListed
  \/ SettleSend
  \/ ChunkSettled
  \/ PauseElapsed
  \/ BroadcastReturned
  \/ ReplySettled

SpecBroadcast == InitBroadcast /\ [][NextBroadcast]_vars

(***************************************************************************)
(* One invocation of checkScheduleUpdates after the other, with responses   *)
(* that lack a day and with calls that raise (scheduler.ts:28-79).          *)
(***************************************************************************)
\* A zone entry without its tomorrow schedule: reading the field gives
\* undefined.
NoTomorrow(zd) == [zd EXCEPT !.tomorrow = Undefined]

\* What the site may answer here: the published schedule, the same schedule
\* under a later date and timestamp, zone 1.1 changed, and the published and
\* the changed one with an entry of zone 2.1 that lacks tomorrow.
SeqResponses ==
  { Published,
    <<Entry("1.1", LaterZone), Entry("2.1", LaterZone)>>,
    SetZone(Published, "1.1", ChangedZone),
    SetZone(Published, "2.1", NoTomorrow(BaseZone)),
    <<Entry("1.1", ChangedZone), Entry("2.1", NoTomorrow(BaseZone))>> }

\* The subscriptions tables tried here: empty, and one subscriber of each
\* zone.
SeqSubscriptions == { SubscriptionRows(0, 0), SubscriptionRows(1, 1) }

\* The message of the TypeError raised by reading a property of undefined
\* (day1.status, dayData.date), and of an error raised by the database client.
TypeErrorText == "Cannot read properties of undefined"

ClientErrorText == "client error"

\* An awaited call of the database client resolves or raises.
ClientOutcomes == {"resolved", "threw"}

\* changes.ts:52: day1.status or day2.status is read of undefined.
compareScheduleDataThrows(day1, day2) == day1 = Undefined \/ day2 = Undefined

\* changes.ts:33-41: a zone the cache lacks is not looked at; otherwise both
\* days are compared.
hasZoneChangedThrows(freshZone, cachedZone) ==
  IF cachedZone = Undefined THEN FALSE
  ELSE \/ compareScheduleDataThrows(freshZone.today, cachedZone.today)
       \/ compareScheduleDataThrows(freshZone.tomorrow, cachedZone.tomorrow)

\* changes.ts:14-23: the loop raises at the first zone whose comparison
\* raises, and the zones pushed before are lost with the local array.
detectChangedZonesThrows(freshData, cachedData) ==
  \E i \in 1..Len(freshData) :
    hasZoneChangedThrows(freshData[i].data, Get(cachedData, freshData[i].zone))

\* formatScheduleMessage raises in formatDay when a day is undefined
\* (dayData.date).
formatScheduleMessageThrows(data) == data.today = Undefined \/ data.tomorrow = Undefined

\* An invocation that has not started: its position, its local variables,
\* the cache it read, the calls of sendBulkMessages that returned, the
\* stages at which an exception was raised, the error the catch block of
\* line 65 holds, and what became of its audit record.
IdleSeqRun ==
  [pc |-> "idle", freshData |-> EmptyResponse, cachedData |-> EmptyResponse,
   changedZones |-> << >>, subscribersByZone |-> EmptyObject, idx |-> 0,
   notified |-> << >>, raised |-> {}, error |-> "", audit |-> "none"]

\* The note of line 73.
ErrorNote(message) == [text |-> "Error in checkScheduleUpdates", message |-> message]

\* Line 65: an exception raised inside the try block reaches the catch block.
Catch(run, stage, message) ==
  [run EXCEPT !.pc = "catch", !.raised = @ \cup {stage}, !.error = message]

\* The cron calls checkScheduleUpdates when the invocation before has ended.
SeqStart(r) ==
  /\ runs[r].pc = "idle"
  /\ \A o \in RunIds : ~Running(o)
  /\ IF r = 1 THEN TRUE ELSE runs[r - 1].pc = "done"
  /\ runs' = [runs EXCEPT ![r].pc = "fetch"]
  /\ UNCHANGED <<overlapFrame, scheduleCache, history, cacheWrites>>

\* Lines 30-37: the fetch returns null or a response.
SeqFetchReturns(r) ==
  /\ runs[r].pc = "fetch"
  /\ \/ runs' = [runs EXCEPT ![r].pc = "saveFailure"]
     \/ \E freshData \in SeqResponses :
          runs' = [runs EXCEPT ![r].freshData = freshData, ![r].pc = "readCache"]
  /\ UNCHANGED <<overlapFrame, scheduleCache, history, cacheWrites>>

\* Lines 32-36: the failure is recorded and the invocation ends.
SeqFailureSaved(r) ==
  /\ runs[r].pc = "saveFailure"
  /\ history' = saveToHistory(history, EmptyResponse, << >>, Note("API fetch failed", << >>))
  /\ runs' = [runs EXCEPT ![r].pc = "done"]
  /\ UNCHANGED <<overlapFrame, scheduleCache, cacheWrites>>

\* Variant: an exception of getCachedData is not caught and the invocation
\* rejects.
SeqCacheRead_Uncaught(r) ==
  /\ runs[r].pc = "readCache"
  /\ \E outcome \in ClientOutcomes :
       LET cachedData == getCachedData(SelectSingle(scheduleCache))
           read == [runs[r] EXCEPT !.cachedData = cachedData]
       IN runs' = [runs EXCEPT
            ![r] = IF outcome = "threw"
                   THEN [runs[r] EXCEPT !.pc = "rejected", !.raised = @ \cup {"cacheRead"}]
                   ELSE IF detectChangedZonesThrows(runs[r].freshData, cachedData)
                   THEN Catch(read, "detect", TypeErrorText)
                   ELSE [read EXCEPT
                           !.changedZones = detectChangedZones(runs[r].freshData, cachedData),
                           !.pc = "saveHistory"]]
  /\ UNCHANGED <<overlapFrame, scheduleCache, history, cacheWrites>>

\* Lines 40-43: getCachedData raises or returns the cache, and
\* detectChangedZones raises or returns the changed zones.
SeqCacheRead(r) ==
  /\ runs[r].pc = "readCache"
  /\ \E outcome \in ClientOutcomes :
       LET cachedData == getCachedData(SelectSingle(scheduleCache))
           read == [runs[r] EXCEPT !.cachedData = cachedData]
       IN runs' = [runs EXCEPT
            ![r] = IF outcome = "threw"
                   THEN Catch(runs[r], "cacheRead", ClientErrorText)
                   ELSE IF detectChangedZonesThrows(runs[r].freshData, cachedData)
                   THEN Catch(read, "detect", TypeErrorText)
                   ELSE [read EXCEPT
                           !.changedZones = detectChangedZones(runs[r].freshData, cachedData),
                           !.pc = "saveHistory"]]
  /\ UNCHANGED <<overlapFrame, scheduleCache, history, cacheWrites>>

\* Lines 46-56: the audit record is written; without a changed zone the
\* invocation ends.
SeqHistorySaved(r) ==
  /\ runs[r].pc = "saveHistory"
  /\ history' = saveToHistory(history, runs[r].freshData, runs[r].changedZones,
                              IF Len(runs[r].changedZones) = 0
                              THEN Note("No changes detected", << >>)
                              ELSE Note("Changes in zones", runs[r].changedZones))
  /\ runs' = [runs EXCEPT ![r].pc = IF Len(runs[r].changedZones) = 0
                                    THEN "done" ELSE "readSubscribers"]
  /\ UNCHANGED <<overlapFrame, scheduleCache, cacheWrites>>

\* Lines 95-109: the loop goes on from position idx to the next changed zone
\* with recipients, formats its message, which may raise, and calls
\* sendBulkMessages; without such a zone notifySubscribersOfChanges returns.
SeqNotifyNext(run, idx, byZone) ==
  LET rest == { k \in idx..Len(run.changedZones) : HasSubscribers(byZone, run.changedZones[k]) }
  IN IF rest # {}
     THEN LET k == CHOOSE k \in rest : \A o \in rest : k <= o
              zone == run.changedZones[k]
          IN IF formatScheduleMessageThrows(Get(run.freshData, zone))
             THEN Catch([run EXCEPT !.idx = k], "format", TypeErrorText)
             ELSE [run EXCEPT !.idx = k, !.pc = "notify"]
     ELSE [run EXCEPT !.idx = Len(run.changedZones) + 1, !.pc = "updateCache"]

\* subscriptions.ts:148-199: an exception of the client is caught inside and
\* an empty object returned.
getAllSubscribersGroupedByZoneOr(rows, outcome) ==
  IF outcome = "threw" THEN EmptyObject ELSE getAllSubscribersGroupedByZone(rows)

\* Lines 92-95: the subscribers are read and the loop starts.
SeqSubscribersRead(r) ==
  /\ runs[r].pc = "readSubscribers"
  /\ \E outcome \in ClientOutcomes :
       LET byZone == getAllSubscribersGroupedByZoneOr(subscriptions, outcome)
           looked == [runs[r] EXCEPT
                        !.subscribersByZone = byZone,
                        !.raised = IF outcome = "threw" THEN @ \cup {"lookup"} ELSE @]
       IN runs' = [runs EXCEPT ![r] = SeqNotifyNext(looked, 1, byZone)]
  /\ UNCHANGED <<overlapFrame, scheduleCache, history, cacheWrites>>

\* Lines 109-112: sendBulkMessages has returned for one zone, with the sends
\* to some of its chats successful and the others failed.
SeqBulkReturned(r) ==
  /\ runs[r].pc = "notify"
  /\ LET zone == runs[r].changedZones[runs[r].idx]
         ids == runs[r].subscribersByZone[zone]
     IN \E delivered \in SUBSET { ids[k] : k \in 1..Len(ids) } :
          LET call == [zone |-> zone, chatIds |-> ids,
                       text |-> formatScheduleMessage(zone, Get(runs[r].freshData, zone), TRUE),
                       delivered |-> delivered]
          IN runs' = [runs EXCEPT
               ![r] = SeqNotifyNext([runs[r] EXCEPT !.notified = Append(@, call)],
                                    runs[r].idx + 1, runs[r].subscribersByZone)]
  /\ UNCHANGED <<overlapFrame, scheduleCache, history, cacheWrites>>

\* Variant: the invocation ends without rewriting the cache row.
SeqCacheUpdated_NoWrite(r) ==
  /\ runs[r].pc = "updateCache"
  /\ runs' = [runs EXCEPT ![r].pc = "done"]
  /\ UNCHANGED <<overlapFrame, scheduleCache, history, cacheWrites>>

\* Variant: the cache row is rewritten only when some send was successful.
SeqCacheUpdated_IfDelivered(r) ==
  /\ runs[r].pc = "updateCache"
  /\ \E outcome \in ClientOutcomes :
       IF outcome = "threw"
       THEN /\ runs' = [runs EXCEPT ![r] = Catch(runs[r], "cacheWrite", ClientErrorText)]
            /\ UNCHANGED <<scheduleCache, cacheWrites>>
       ELSE /\ scheduleCache' =
                 IF \E k \in 1..Len(runs[r].notified) : runs[r].notified[k].delivered # {}
                 THEN updateCache(scheduleCache, runs[r].freshData)
                 ELSE scheduleCache
            /\ cacheWrites' = cacheWrites + 1
            /\ runs' = [runs EXCEPT ![r].pc = "done"]
  /\ UNCHANGED <<overlapFrame, history>>

\* Lines 63-64: updateCache raises, or the cache row is rewritten with
\* freshData and the invocation ends.
SeqCacheUpdated(r) ==
  /\ runs[r].pc = "updateCache"
  /\ \E outcome \in ClientOutcomes :
       IF outcome = "threw"
       THEN /\ runs' = [runs EXCEPT ![r] = Catch(runs[r], "cacheWrite", ClientErrorText)]
            /\ UNCHANGED <<scheduleCache, cacheWrites>>
       ELSE /\ scheduleCache' = updateCache(scheduleCache, runs[r].freshData)
            /\ cacheWrites' = cacheWrites + 1
            /\ runs' = [runs EXCEPT ![r].pc = "done"]
  /\ UNCHANGED <<overlapFrame, history>>

\* Variant: the catch block stores the fresh snapshot in the cache before it
\* writes the audit record.
SeqErrorSaved_CacheWritten(r) ==
  /\ runs[r].pc = "catch"
  /\ \E outcome \in ClientOutcomes :
       /\ history' = IF outcome = "threw" THEN history
                     ELSE saveToHistory(history, EmptyResponse, << >>,
                                        ErrorNote(runs[r].error))
       /\ runs' = [runs EXCEPT ![r].pc = "done",
                               ![r].audit = IF outcome = "threw" THEN "failed" ELSE "saved"]
  /\ scheduleCache' = IF runs[r].freshData = EmptyResponse THEN scheduleCache
                      ELSE updateCache(scheduleCache, runs[r].freshData)
  /\ UNCHANGED <<overlapFrame, cacheWrites>>

\* Lines 65-78: the catch block calls saveToHistory with the error's
\* message; the insert is made, or it raises inside saveToHistory, which
\* swallows it; the invocation ends.
SeqErrorSaved(r) ==
  /\ runs[r].pc = "catch"
  /\ \E outcome \in ClientOutcomes :
       /\ history' = IF outcome = "threw" THEN history
                     ELSE saveToHistory(history, EmptyResponse, << >>,
                                        ErrorNote(runs[r].error))
       /\ runs' = [runs EXCEPT ![r].pc = "done",
                               ![r].audit = IF outcome = "threw" THEN "failed" ELSE "saved"]
  /\ UNCHANGED <<overlapFrame, scheduleCache, cacheWrites>>

\* No invocation has started; the cache row holds {} or the published
\* schedule, and nobody or a chat per zone is subscribed.
InitSeq ==
  /\ fresh = EmptyResponse
  /\ cached = EmptyResponse
  /\ edits = 0
  /\ returned = << >>
  /\ BulkIdle
  /\ cyclePc = "idle"
  /\ cycles = 0
  /\ fetchResult = "none"
  /\ changedZones = << >>
  /\ subscribersByZone = EmptyObject
  /\ zoneIdx = 0
  /\ scheduleCache \in ScheduleCacheTables
  /\ history = << >>
  /\ subscriptions \in SeqSubscriptions
  /\ calls = << >>
  /\ logged = << >>
  /\ accesses = << >>
  /\ runs = [r \in RunIds |-> IdleSeqRun]
  /\ cacheWrites = 0
  /\ SubsIdle
  /\ cmd = IdleCmd
  /\ retry = IdleRetry

NextSeq ==
  \/ \E r \in RunIds : SeqStart(r)
  \/ \E r \in RunIds : SeqFetchReturns(r)
  \/ \E r \in RunIds : SeqFailureSaved(r)
  \/ \E r \in RunIds : SeqCacheRead(r)
  \/ \E r \in RunIds : SeqHistorySaved(r)
  \/ \E r \in RunIds : SeqSubscribersRead(r)
  \/ \E r \in RunIds : SeqBulkReturned(r)
  \/ \E r \in RunIds : SeqCacheUpdated(r)
  \/ \E r \in RunIds : SeqErrorSaved(r)

SpecSeq == InitSeq /\ [][NextSeq]_vars

(***************************************************************************)
(* fetchYasnoDataWithRetry and fetchYasnoData of the Yasno API helpers      *)
(* (src/unnamed/part_008).  fetchProxies and selectRandomProxies are        *)
(* imported from './proxy'.                                                  *)
(***************************************************************************)
\* The number of proxies asked of selectRandomProxies (line 88).
PROXY_ATTEMPTS == 3

\* What fetchProxies may return: a list of up to MaxProxies proxy URLs, empty
\* when none is available.
ProxyLists == { [k \in 1..n |-> k] : n \in 0..MaxProxies }

\* All the lists of length n of different members of a set.
RECURSIVE Arrangements(_, _)
Arrangements(set, n) ==
  IF n = 0 THEN { << >> }
  ELSE UNION { { <<p>> \o rest : rest \in Arrangements(set \ {p}, n - 1) } : p \in set }

\* selectRandomProxies(proxies, count): the lists it may return, count
\* different proxies of the list in a random order, or all of them when the
\* list is shorter.
selectRandomProxies(proxies, count) ==
  Arrangements({ proxies[k] : k \in 1..Len(proxies) },
               IF Len(proxies) < count THEN Len(proxies) ELSE count)

\* An object that response.json() parsed from the body.
JsonObject(obj) == [object |-> obj]

\* The JSON value false, a body that parses to a value that is not an object.
JsonFalse == [false |-> TRUE]

\* What one fetch of the API may bring: fetch raises, a status that is not
\* ok, a body that json() cannot parse, and a body that parses to null, to
\* false or to a response.
YasnoFetches == {"threw", "notOk", "jsonThrew", "null", "false", "object"}

\* Lines 38-68: null for an exception or a status that is not ok, otherwise
\* the parsed body.
fetchYasnoData(fetched) ==
  CASE fetched \in {"threw", "notOk", "jsonThrew", "null"} -> Null
    [] fetched = "false" -> JsonFalse
    [] fetched = "object" -> JsonObject(Published)

\* if (data): null and false are falsy, an object is truthy.
Truthy(data) == data # Null /\ data # JsonFalse

\* What the actions of this part leave alone.
retryFrame == <<detectVars, bulkVars, cycleVars, overlapVars, subsVars, cmdVars>>

\* Line 78: fetchYasnoDataWithRetry is called and asks for the proxies.
CallFetchWithRetry ==
  /\ retry.pc = "idle"
  /\ retry' = [retry EXCEPT !.pc = "fetchProxies"]
  /\ UNCHANGED retryFrame

\* Lines 78-95: fetchProxies returns; without a proxy the direct request is
\* made, otherwise the proxies are selected and the first attempt is made.
ProxiesFetched ==
  /\ retry.pc = "fetchProxies"
  /\ \E proxies \in ProxyLists :
       IF Len(proxies) = 0
       THEN retry' = [retry EXCEPT !.proxies = proxies, !.pc = "direct"]
       ELSE \E selectedProxies \in selectRandomProxies(proxies, PROXY_ATTEMPTS) :
              retry' = [retry EXCEPT !.proxies = proxies,
                                     !.selectedProxies = selectedProxies,
                                     !.i = 0, !.pc = "attempt"]
  /\ UNCHANGED retryFrame

\* Line 82: the direct request returns and its result is returned as it is.
DirectReturns ==
  /\ retry.pc = "direct"
  /\ \E fetched \in YasnoFetches :
       retry' = [retry EXCEPT
                   !.attempts = Append(@, [proxy |-> Undefined, data |-> fetchYasnoData(fetched)]),
                   !.result = fetchYasnoData(fetched),
                   !.pc = "done"]
  /\ UNCHANGED retryFrame

\* Variant: the pause is made after the last attempt too.
AttemptReturns_WaitsAfterLast ==
  /\ retry.pc = "attempt"
  /\ \E fetched \in YasnoFetches :
       LET data == fetchYasnoData(fetched)
           tried == [retry EXCEPT
                       !.attempts = Append(@, [proxy |-> retry.selectedProxies[retry.i + 1],
                                               data |-> data])]
       IN retry' = IF Truthy(data)
                   THEN [tried EXCEPT !.result = data, !.pc = "done"]
                   ELSE [tried EXCEPT !.waits = Append(@, retry.i + 1), !.pc = "wait"]
  /\ UNCHANGED retryFrame

\* Lines 95-111: the attempt with selectedProxies[i] returns.  Its data is
\* returned when truthy; otherwise the pause is made when an attempt is left,
\* and null is returned when none is.
AttemptReturns ==
  /\ retry.pc = "attempt"
  /\ \E fetched \in YasnoFetches :
       LET data == fetchYasnoData(fetched)
           tried == [retry EXCEPT
                       !.attempts = Append(@, [proxy |-> retry.selectedProxies[retry.i + 1],
                                               data |-> data])]
       IN retry' = IF Truthy(data)
                   THEN [tried EXCEPT !.result = data, !.pc = "done"]
                   ELSE IF retry.i < Len(retry.selectedProxies) - 1
                   THEN [tried EXCEPT !.waits = Append(@, retry.i + 1), !.pc = "wait"]
                   ELSE [tried EXCEPT !.i = @ + 1, !.result = Null, !.pc = "done"]
  /\ UNCHANGED retryFrame

\* Lines 106 and 91-95: the pause is over, i++ and the loop test; the next
\* attempt is made, or the loop is over and null is returned.
WaitElapsed ==
  /\ retry.pc = "wait"
  /\ retry' = IF retry.i + 1 < Len(retry.selectedProxies)
              THEN [retry EXCEPT !.i = @ + 1, !.pc = "attempt"]
              ELSE [retry EXCEPT !.i = @ + 1, !.result = Null, !.pc = "done"]
  /\ UNCHANGED retryFrame

InitRetry ==
  /\ fresh = EmptyResponse
  /\ cached = EmptyResponse
  /\ edits = 0
  /\ returned = << >>
  /\ BulkIdle
  /\ CycleIdle
  /\ LaterIdle

NextRetry ==
  \/ CallFetchWithRetry
  \/ ProxiesFetched
  \/ DirectReturns
  \/ AttemptReturns
  \/ WaitElapsed

SpecRetry == InitRetry /\ [][NextRetry]_vars

(***************************************************************************)
(* getAllSubscribersGroupedByZone of src/src/database/subscriptions.ts on   *)
(* the tables users and subscriptions: two selects, with the tables free to *)
(* change between them.                                                     *)
(***************************************************************************)
\* The chat id of the user with id k in the tables tried.
ChatIdOf(k) == 100 + k

\* The tables tried: n users, and subscriptions of some of them, one per
\* user (UNIQUE(user_id)), each to a zone.
GroupUsers(n) == { UserRow(k, ChatIdOf(k)) : k \in 1..n }

GroupSubscriptions(n) ==
  UNION { { { UserSubscription(k, zoneOf[k]) : k \in subscribed } :
              zoneOf \in [subscribed -> Zones] } :
          subscribed \in SUBSET (1..n) }

\* select('zone, user_id') on subscriptions: the rows, taken by user_id.
SelectSubscriptions(table) ==
  LET ids == Ascending({ s.user_id : s \in table })
  IN [k \in 1..Len(ids) |-> CHOOSE s \in table : s.user_id = ids[k]]

\* select('id, chat_id').in('id', userIds) on users.
SelectUsersIn(table, userIds) == { u \in table : u.id \in userIds }

\* userMap.get(id): the chat_id of the row with that id, or undefined,
\* written 0.
UserMapGet(userRows, id) ==
  LET mapped == { u \in userRows : u.id = id }
  IN IF mapped = {} THEN 0 ELSE (CHOOSE u \in mapped : TRUE).chat_id

\* Variant: a subscription whose user is not in the map is grouped too, under
\* the chat id undefined.
GroupLoop_NoSkip(subs, userRows) ==
  GroupByZone([k \in 1..Len(subs) |->
                 SubscriptionRow(subs[k].zone, UserMapGet(userRows, subs[k].user_id))])

\* Lines 177-192: the map of user ids to chat ids and the loop over the
\* subscriptions, a subscription without a chat id skipped.
GroupLoop(subs, userRows) ==
  LET known == SelectSeq(subs, LAMBDA sub : UserMapGet(userRows, sub.user_id) # 0)
  IN IF Len(known) = 0 THEN EmptyObject
     ELSE GroupByZone([k \in 1..Len(known) |->
                         SubscriptionRow(known[k].zone,
                                         UserMapGet(userRows, known[k].user_id))])

\* What the actions of this part leave alone.
groupFrame ==
  <<detectVars, bulkVars, cycles, fetchResult, changedZones, zoneIdx, scheduleCache,
    history, calls, logged, accesses, overlapVars, nextUserId, ops, lastSubscribed,
    cmdVars, retryVars>>

\* Lines 145-152: getAllSubscribersGroupedByZone is called and selects the
\* subscriptions.
GroupingCalled ==
  /\ cyclePc = "idle"
  /\ cyclePc' = "selectSubscriptions"
  /\ UNCHANGED <<groupFrame, subscriptions, subscribersByZone, users, userSubs>>

\* Lines 150-170: the select returns an error or raises, and {} is returned;
\* or it returns no row, and {} is returned; or it returns the rows and the
\* users of these rows are selected.
SubscriptionsSelected ==
  /\ cyclePc = "selectSubscriptions"
  /\ \/ /\ cyclePc' = "failed"
        /\ subscribersByZone' = EmptyObject
        /\ UNCHANGED subscriptions
     \/ /\ subscriptions' = SelectSubscriptions(userSubs)
        /\ IF Len(subscriptions') = 0
           THEN cyclePc' = "grouped" /\ subscribersByZone' = EmptyObject
           ELSE cyclePc' = "selectUsers" /\ UNCHANGED subscribersByZone
  /\ UNCHANGED <<groupFrame, users, userSubs>>

\* Between the two selects a row of users is deleted, and with it the
\* subscription of the user (ON DELETE CASCADE).
UserDeleted ==
  /\ cyclePc = "selectUsers"
  /\ \E u \in users :
       /\ users' = users \ {u}
       /\ userSubs' = deleteSubscription(userSubs, u.id)
  /\ UNCHANGED <<groupFrame, cyclePc, subscriptions, subscribersByZone>>

\* Lines 166-199: the select on users returns an error or raises, and {} is
\* returned; or it returns the rows and the subscriptions are grouped.
UsersSelected ==
  /\ cyclePc = "selectUsers"
  /\ \/ /\ cyclePc' = "failed"
        /\ subscribersByZone' = EmptyObject
     \/ /\ cyclePc' = "grouped"
        /\ subscribersByZone' =
             GroupLoop(subscriptions,
                       SelectUsersIn(users, { subscriptions[k].user_id :
                                                k \in 1..Len(subscriptions) }))
  /\ UNCHANGED <<groupFrame, subscriptions, users, userSubs>>

InitGroup ==
  /\ fresh = EmptyResponse
  /\ cached = EmptyResponse
  /\ edits = 0
  /\ returned = << >>
  /\ BulkIdle
  /\ cyclePc = "idle"
  /\ cycles = 0
  /\ fetchResult = "none"
  /\ changedZones = << >>
  /\ subscribersByZone = EmptyObject
  /\ zoneIdx = 0
  /\ scheduleCache = { ScheduleCacheRow(1, EmptyResponse) }
  /\ history = << >>
  /\ subscriptions = << >>
  /\ calls = << >>
  /\ logged = << >>
  /\ accesses = << >>
  /\ runs = [r \in RunIds |-> IdleRun]
  /\ cacheWrites = 0
  /\ \E n \in 0..MaxUsers :
       /\ users = GroupUsers(n)
       /\ nextUserId = n + 1
       /\ userSubs \in GroupSubscriptions(n)
  /\ ops = << >>
  /\ lastSubscribed = [c \in {} |-> ""]
  /\ cmd = IdleCmd
  /\ retry = IdleRetry

NextGroup ==
  \/ GroupingCalled
  \/ SubscriptionsSelected
  \/ UserDeleted
  \/ UsersSelected

SpecGroup == InitGroup /\ [][NextGroup]_vars

(***************************************************************************)
(* Properties of the change detector, checked under SpecDetect.            *)
(***************************************************************************)
\* The first call on the current inputs has just returned.
Called == Len(returned) = 1

\* The ChangeSet it returned.
ChangeSet == returned[1]

Range(seq) == {seq[i] : i \in 1..Len(seq)}

\* C1: for every snapshot S, detectChangedZones(S, S) returns an empty
\* ChangeSet: a call whose two arguments are the same snapshot reports no zone.
C1_SameSnapshotNoChange ==
  (Called /\ fresh = cached) => ChangeSet = << >>

\* The same snapshot on both sides, three zones, not all of them the base zone.
C1_Witness ==
  /\ Called
  /\ fresh = cached
  /\ edits >= 1
  /\ Len(fresh) >= 2
  /\ \E i \in 1..Len(fresh) : fresh[i].data # BaseZone
  /\ ChangeSet = << >>

EraseDay(ds) == [ds EXCEPT !.date = ""]

EraseZone(zd) == ZoneData(EraseDay(zd.today), EraseDay(zd.tomorrow), "undefined")

\* obj with every date string and every updatedOn timestamp blanked.
Erase(obj) == [i \in 1..Len(obj) |-> Entry(obj[i].zone, EraseZone(obj[i].data))]

C3_UnseenZonesReported ==
  Called =>
    /\ \A i \in 1..Len(fresh) :
         ~HasKey(cached, fresh[i].zone) => fresh[i].zone \in Range(ChangeSet)
    /\ cached = EmptyResponse => ChangeSet = ObjectKeys(fresh)

\* A zone of fresh the cache has never held, beside a zone it holds unchanged.
C3_Witness ==
  /\ Called
  /\ cached # EmptyResponse
  /\ \E i, j \in 1..Len(fresh) :
       /\ ~HasKey(cached, fresh[i].zone)
       /\ fresh[i].zone \in Range(ChangeSet)
       /\ HasKey(cached, fresh[j].zone)
       /\ fresh[j].zone \notin Range(ChangeSet)

\* Equality of two day schedules as the specification states it.
SlotEqual(s1, s2) == s1.start = s2.start /\ s1.end = s2.end /\ s1.type = s2.type

DayEqual(d1, d2) ==
  /\ d1.status = d2.status
  /\ Len(d1.slots) = Len(d2.slots)
  /\ \A k \in 1..Len(d1.slots) : k <= Len(d2.slots) => SlotEqual(d1.slots[k], d2.slots[k])

\* C4: a zone in both snapshots is in the ChangeSet exactly when its today or
\* its tomorrow schedule differs (status, slot count, or some slot's start, end
\* or type at the same index).
C4_ChangedIffADayDiffers ==
  Called =>
    \A i \in 1..Len(fresh) :
      LET z == fresh[i].zone
      IN HasKey(cached, z) =>
           (z \in Range(ChangeSet)
              <=> \/ ~DayEqual(fresh[i].data.today, Get(cached, z).today)
                  \/ ~DayEqual(fresh[i].data.tomorrow, Get(cached, z).tomorrow))

\* WaitingForSchedule became ScheduleApplies with the same slots: a change.
C4_Witness ==
  /\ Called
  /\ \E i \in 1..Len(fresh) :
       LET z == fresh[i].zone
       IN /\ HasKey(cached, z)
          /\ Get(cached, z).tomorrow.status = SCHEDULE_STATUS.WAITING
          /\ fresh[i].data.tomorrow.status = SCHEDULE_STATUS.APPLIES
          /\ fresh[i].data.tomorrow.slots = Get(cached, z).tomorrow.slots
          /\ DayEqual(fresh[i].data.today, Get(cached, z).today)
          /\ z \in Range(ChangeSet)

Count(seq, x) == Cardinality({k \in 1..Len(seq) : seq[k] = x})

\* The two slot lists hold the same slots the same number of times, in a
\* different order.
Reordered(slots1, slots2) ==
  /\ Len(slots1) = Len(slots2)
  /\ \A x \in Range(slots1) \cup Range(slots2) : Count(slots1, x) = Count(slots2, x)
  /\ slots1 # slots2

\* C5: slots are compared by position: a zone whose fresh slot list for a day
\* is a reordering of the cached one is reported as changed.
C5_ReorderingIsAChange ==
  Called =>
    \A i \in 1..Len(fresh), day \in Days :
      LET z == fresh[i].zone
      IN (/\ HasKey(cached, z)
          /\ Reordered(DayOf(fresh[i].data, day).slots, DayOf(Get(cached, z), day).slots))
         => z \in Range(ChangeSet)

\* The only difference of the zone is the order of today's two slots.
C5_Witness ==
  /\ Called
  /\ \E i \in 1..Len(fresh) :
       LET z == fresh[i].zone
       IN /\ HasKey(cached, z)
          /\ Reordered(fresh[i].data.today.slots, Get(cached, z).today.slots)
          /\ fresh[i].data.today.status = Get(cached, z).today.status
          /\ DayEqual(fresh[i].data.tomorrow, Get(cached, z).tomorrow)
          /\ z \in Range(ChangeSet)

\* C6: the ChangeSet holds only keys of fresh: a zone of cached that fresh no
\* longer holds is never reported.
C6_OnlyZonesOfFresh ==
  Called =>
    /\ \A z \in Range(ChangeSet) : HasKey(fresh, z)
    /\ \A j \in 1..Len(cached) :
         ~HasKey(fresh, cached[j].zone) => cached[j].zone \notin Range(ChangeSet)

\* The cache holds a zone fresh has dropped, and another zone is reported.
C6_Witness ==
  /\ Called
  /\ \E j \in 1..Len(cached) : ~HasKey(fresh, cached[j].zone)
  /\ ChangeSet # << >>

\* The place of key z in the key order of obj.
KeyIndex(obj, z) == CHOOSE i \in 1..Len(obj) : obj[i].zone = z

\* C7: the ChangeSet is a subsequence of the key order of fresh: its zones are
\* keys of fresh, in the order of fresh, none twice.
C7_OrderOfFresh ==
  Called =>
    /\ \A k \in 1..Len(ChangeSet) : HasKey(fresh, ChangeSet[k])
    /\ \A j, k \in 1..Len(ChangeSet) :
         j < k => KeyIndex(fresh, ChangeSet[j]) < KeyIndex(fresh, ChangeSet[k])

\* Three zones, the first and the last of them changed, the middle one not.
C7_Witness ==
  /\ Called
  /\ Len(fresh) = 3
  /\ ChangeSet = <<fresh[1].zone, fresh[3].zone>>
  /\ fresh[1].zone = "2.1"

\* obj cut down to its key z (empty when it does not hold z).
OnlyZone(obj, z) == IF HasKey(obj, z) THEN <<Entry(z, Get(obj, z))>> ELSE << >>

SlotFields == {"start", "end", "type"}

\* The slot fields in which two zones with slot lists of equal lengths differ.
SlotFieldDiffs(zd1, zd2) ==
  {t \in Days \X (1..(MaxSlots + 1)) \X SlotFields :
     /\ t[2] <= Len(DayOf(zd1, t[1]).slots)
     /\ DayOf(zd1, t[1]).slots[t[2]][t[3]] # DayOf(zd2, t[1]).slots[t[2]][t[3]]}

\* fresh is cached but for zone number i, and there but for some slot fields.
OnlySlotFieldsDiffer(i) ==
  /\ ObjectKeys(fresh) = ObjectKeys(cached)
  /\ \A j \in 1..Len(fresh) : j # i => fresh[j] = cached[j]
  /\ fresh[i].data.updatedOn = cached[i].data.updatedOn
  /\ \A day \in Days :
       /\ DayOf(fresh[i].data, day).date = DayOf(cached[i].data, day).date
       /\ DayOf(fresh[i].data, day).status = DayOf(cached[i].data, day).status
       /\ Len(DayOf(fresh[i].data, day).slots) = Len(DayOf(cached[i].data, day).slots)

\* fresh is cached but for one slot field of zone number i.
OneSlotFieldDiffers(i) ==
  /\ OnlySlotFieldsDiffer(i)
  /\ Cardinality(SlotFieldDiffs(fresh[i].data, cached[i].data)) = 1

\* C8: detection is per zone: zone z is in the ChangeSet exactly when the
\* detector run on fresh and cached cut down to z alone reports it, and when
\* fresh is cached but for one slot field of one zone the ChangeSet is that zone.
C8_PerZone ==
  Called =>
    /\ \A i \in 1..Len(fresh) :
         LET z == fresh[i].zone
         IN z \in Range(ChangeSet)
              <=> detectChangedZones(OnlyZone(fresh, z), OnlyZone(cached, z)) = <<z>>
    /\ \A i \in 1..Len(fresh) :
         OneSlotFieldDiffers(i) => ChangeSet = <<fresh[i].zone>>

\* An end time 450 became 480 in the second of several zones, all else equal.
C8_Witness ==
  /\ Called
  /\ Len(fresh) >= 2
  /\ OneSlotFieldDiffers(2)
  /\ cached[2].data.today.slots[1].end = 450
  /\ fresh[2].data.today.slots[1].end = 480
  /\ ChangeSet = <<fresh[2].zone>>

C10_CountsAddUp ==
  bulkPc = "done" =>
    /\ successful + failed = Len(chatIds)
    /\ successful = sendsTrue

\* Two full chunks and a tail, with sends that returned true, sends that
\* returned false and a fetch that threw.
C10_Witness ==
  /\ bulkPc = "done"
  /\ Len(chatIds) > 2 * TELEGRAM_RATE_LIMITS.CHUNK_SIZE
  /\ successful > 0
  /\ failed > successful
  /\ fetchThrew

\* n recipients are sent in this many chunks: ceil(n / CHUNK_SIZE).
ChunkCount(n) ==
  (n + TELEGRAM_RATE_LIMITS.CHUNK_SIZE - 1) \div TELEGRAM_RATE_LIMITS.CHUNK_SIZE

Min(a, b) == IF a < b THEN a ELSE b

\* The list positions the k-th chunk of a list of n recipients should hold.
ChunkPositions(k, n) ==
  ((k - 1) * TELEGRAM_RATE_LIMITS.CHUNK_SIZE + 1) ..
    Min(k * TELEGRAM_RATE_LIMITS.CHUNK_SIZE, n)

\* C11: the chunks sendBulkMessages starts are the consecutive stretches of
\* the recipient list, CHUNK_SIZE long except possibly the last, in the
\* list's order; the sends started so far are one per list position, from
\* the first position on without a gap or a repeat; and when the call returns
\* there were ceil(n / CHUNK_SIZE) chunks and every position got its send.
C11_ConsecutiveChunksOneSendEach ==
  /\ \A k \in 1..Len(chunks) :
       /\ Len(chunks[k]) <= TELEGRAM_RATE_LIMITS.CHUNK_SIZE
       /\ Len(chunks[k]) = Cardinality(ChunkPositions(k, Len(chatIds)))
       /\ \A j \in 1..Len(chunks[k]) :
            chunks[k][j] = chatIds[(k - 1) * TELEGRAM_RATE_LIMITS.CHUNK_SIZE + j]
  /\ Len(sent) <= Len(chatIds)
  /\ \A p \in 1..Len(sent) : sent[p] = chatIds[p]
  /\ bulkPc = "done" =>
       /\ Len(chunks) = ChunkCount(Len(chatIds))
       /\ sent = chatIds

\* A call over two full chunks and a tail has returned: three chunks of
\* CHUNK_SIZE, CHUNK_SIZE and MaxTail recipients.
C11_Witness ==
  /\ bulkPc = "done"
  /\ Len(chunks) = 3
  /\ Len(chunks[1]) = TELEGRAM_RATE_LIMITS.CHUNK_SIZE
  /\ Len(chunks[2]) = TELEGRAM_RATE_LIMITS.CHUNK_SIZE
  /\ Len(chunks[3]) = MaxTail

\* C12: within one call, sends are started only when no send of the chunk
\* before is still unsettled, and they are started a whole chunk at a time:
\* every step that starts sends starts all sends of the new chunk, before the
\* call awaits any of them.
C12_ChunkBarrier ==
  [][sent' # sent =>
       /\ pending = 0
       /\ sent' = sent \o chunk'
       /\ pending' = Len(chunk')
       /\ bulkPc' = "await"]_vars

\* The second chunk has been started, after the first one settled with sends
\* that failed, and none of its sends has settled yet.
C12_Witness ==
  /\ bulkPc = "await"
  /\ Len(chunks) = 2
  /\ pending = Len(chunk)
  /\ failed > 0
  /\ successful > 0

Max(a, b) == IF a < b THEN b ELSE a

\* C13: the call pauses once between every two consecutive chunks and never
\* after the last one. While it pauses, every send of the chunks started so
\* far has settled and recipients remain; while a chunk is awaited, one pause
\* less than chunks has been made; and a call over n recipients returns after
\* exactly max(0, ceil(n / CHUNK_SIZE) - 1) pauses.
C13_PauseBetweenChunksOnly ==
  /\ bulkPc = "pause" =>
       /\ pending = 0
       /\ pauses = Len(chunks)
       /\ Len(sent) < Len(chatIds)
  /\ bulkPc = "await" => pauses = Len(chunks) - 1
  /\ bulkPc = "done" => pauses = Max(0, ChunkCount(Len(chatIds)) - 1)

\* A call over two full chunks and a tail has returned after two pauses.
C13_Witness ==
  /\ bulkPc = "done"
  /\ Len(chatIds) = 2 * TELEGRAM_RATE_LIMITS.CHUNK_SIZE + MaxTail
  /\ pauses = 2

\* A call over exactly one full chunk has returned without a pause.
C13_WitnessFullChunk ==
  /\ bulkPc = "done"
  /\ Len(chatIds) = TELEGRAM_RATE_LIMITS.CHUNK_SIZE
  /\ pauses = 0

\* C14: a call with an empty recipient list returns at once with both counts
\* zero: it never awaits a chunk or a pause, starts no send and makes no pause.
C14_EmptyListNoSendNoPause ==
  chatIds = << >> =>
    /\ bulkPc \in {"idle", "done"}
    /\ successful = 0
    /\ failed = 0
    /\ sent = << >>
    /\ chunks = << >>
    /\ pauses = 0

\* The call with the empty list has returned.
C14_Witness ==
  /\ chatIds = << >>
  /\ bulkPc = "done"
  /\ successful = 0
  /\ failed = 0

\* C15: a failed send is counted once and changes nothing else in the run. No
\* recipient is sent to twice; after every chunk the two counts cover every
\* send started so far, the failed count being the sends that did not return
\* true; and the call returns only when every recipient has had its send,
\* whatever failed before.
C15_FailuresCountedRunContinues ==
  /\ Cardinality(Range(sent)) = Len(sent)
  /\ bulkPc \in {"pause", "done"} =>
       /\ successful + failed = Len(sent)
       /\ failed = Len(sent) - sendsTrue
  /\ bulkPc = "done" => Len(sent) = Len(chatIds)

\* Every send of a call over two full chunks and a tail failed, the first
\* one included, and still all recipients had their send.
C15_Witness ==
  /\ bulkPc = "done"
  /\ Len(chunks) = 3
  /\ failed = Len(chatIds)
  /\ Len(sent) = Len(chatIds)

\* C16: sendBulkMessages never ends by an exception, and a send whose fetch
\* throws is tallied like one that answers not ok: the failed sends counted
\* and those settled in the current chunk are exactly the sends whose fetch
\* threw or answered not ok, so the counts returned hold them all as failed.
C16_ThrowTalliedAsFailed ==
  /\ bulkPc # "threw"
  /\ bulkPc = "await" =>
       failed + results.fulfilledFalse + results.rejected = sendsNotOk
  /\ bulkPc \in {"pause", "done"} => failed = sendsNotOk

\* The call has returned its counts although the fetch of a send threw: the
\* only send of the list threw and is the one failed send.
C16_Witness ==
  /\ bulkPc = "done"
  /\ fetchThrew
  /\ Len(chatIds) = 1
  /\ sendsTrue = 0
  /\ failed = 1
  /\ successful = 0

(***************************************************************************)
(* Properties of the update cycle, checked under SpecCycle.                *)
(***************************************************************************)
\* C17: over a whole update cycle, all changed zones together, no more than
\* CHUNK_SIZE (30, the messages per second ceiling) sends are started without
\* a CHUNK_DELAY_MS pause between them.
C17_CeilingOverTheCycle ==
  sinceLastPause <= TELEGRAM_RATE_LIMITS.MESSAGES_PER_SECOND

\* The record a cycle leaves in the history when its fetch gave no data.
FailureRecord ==
  [raw_data |-> EmptyResponse, changed_zones |-> Null,
   notes |-> Note("API fetch failed", << >>)]

\* C18: in a cycle whose fetch returned null, no step writes the cache row or
\* starts a send or a call of sendBulkMessages; the only thing the cycle
\* does is append one record with the failure note to the history, and with
\* that it ends.
C18_FailedFetchOnlyAudits ==
  [][fetchResult' = "null" =>
       /\ scheduleCache' = scheduleCache
       /\ sent' = << >>
       /\ bulkPc' = "idle"
       /\ sinceLastPause' = 0
       /\ \/ /\ cyclePc' = "saveFailure"
             /\ history' = history
          \/ /\ cyclePc = "saveFailure"
             /\ cyclePc' = "done"
             /\ history' = Append(history, FailureRecord)]_vars

\* A cycle whose fetch failed has ended: the cache row still holds the
\* snapshot published before and the history holds the failure record.
C18_Witness ==
  /\ cyclePc = "done"
  /\ fetchResult = "null"
  /\ scheduleCache = { ScheduleCacheRow(1, Published) }
  /\ history = << FailureRecord >>
  /\ sent = << >>

\* The record a cycle whose fetch gave data leaves in the history: the fresh
\* snapshot with the changed zones, null standing for none.
CycleRecord ==
  [raw_data |-> fresh,
   changed_zones |-> IF changedZones = << >> THEN Null ELSE [array |-> changedZones],
   notes |-> IF changedZones = << >>
             THEN Note("No changes detected", << >>)
             ELSE Note("Changes in zones", changedZones)]

\* The cycle is past its saveToHistory of lines 46-51.
PastHistory == cyclePc \in {"readSubscribers", "notify", "updateCache", "done"}

C19_WitnessNoChange ==
  /\ cyclePc = "done"
  /\ fetchResult = "data"
  /\ changedZones = << >>
  /\ fresh # EmptyResponse
  /\ history = << CycleRecord >>

\* C20: after every cycle whose fetch gave data, the snapshot in the cache is
\* the fresh snapshot of that cycle, whether or not a zone was detected as
\* changed.
C20_CacheIsFreshAfterCycle ==
  (cyclePc = "done" /\ fetchResult = "data") =>
    getCachedData(SelectSingle(scheduleCache)) = fresh

\* The chat ids subscribed to one of the zones of a list.
SubscribedTo(zones) ==
  { subscriptions[i].chat_id :
      i \in { j \in 1..Len(subscriptions) : subscriptions[j].zone \in Range(zones) } }

\* C21: in an update cycle every send goes to a chat subscribed to a zone of
\* the cycle's ChangeSet; and a cycle with an empty ChangeSet starts no send
\* and never asks for the subscribers.
C21_OnlySubscribersOfChangedZones ==
  /\ [](Range(sent) \subseteq SubscribedTo(changedZones))
  /\ [](changedZones = << >> =>
          /\ sent = << >>
          /\ bulkPc = "idle"
          /\ subscribersByZone = EmptyObject)
  /\ [][cyclePc' = "readSubscribers" => changedZones' # << >>]_vars

\* A cycle in which only zone 1.1 changed has ended: its subscribers, a full
\* chunk, were sent to and the subscriber of zone 2.1 was not.
C21_Witness ==
  /\ cyclePc = "done"
  /\ changedZones = <<"1.1">>
  /\ Len(sent) = TELEGRAM_RATE_LIMITS.CHUNK_SIZE
  /\ SubscribedTo(<<"2.1">>) # {}
  /\ SubscribedTo(<<"2.1">>) \cap Range(sent) = {}

\* The chat ids of the subscription rows of one zone, in row order.
RecipientsOf(z) ==
  LET ofZone == SelectSeq(subscriptions, LAMBDA row : row.zone = z)
  IN [k \in 1..Len(ofZone) |-> ofZone[k].chat_id]

\* The changed zones that have a recipient, in ChangeSet order.
ZonesWithRecipients == SelectSeq(changedZones, LAMBDA z : RecipientsOf(z) # << >>)

\* The cycle is past its loop over the changed zones.
PastNotifying ==
  cyclePc \in {"updateCache", "done"} /\ fetchResult = "data" /\ changedZones # << >>

\* C22: the calls of sendBulkMessages a cycle makes are, in ChangeSet order,
\* one for each changed zone that has recipients and none for the others;
\* each call carries all recipients of its zone and the update message built
\* from the zone's data in the fresh snapshot; past the loop none is missing.
C22_OneCallPerZoneInOrder ==
  /\ Len(calls) <= Len(ZonesWithRecipients)
  /\ \A k \in 1..Len(calls) :
       LET z == ZonesWithRecipients[k]
       IN calls[k] = BulkCall(z, RecipientsOf(z),
                              formatScheduleMessage(z, Get(fresh, z), TRUE))
  /\ PastNotifying => Len(calls) = Len(ZonesWithRecipients)

\* Both zones changed against the snapshot in the cache and both have
\* recipients: zone 1.1 was called first, then zone 2.1, and the text for
\* zone 1.1 shows the fresh supply periods, not those of the cache.
C22_Witness ==
  /\ cyclePc = "done"
  /\ cached = Published
  /\ Len(calls) = 2
  /\ calls[1].zone = "1.1"
  /\ calls[2].zone = "2.1"
  /\ Len(calls[1].chatIds) = TELEGRAM_RATE_LIMITS.CHUNK_SIZE + 1
  /\ calls[1].text.today.power = << >>
  /\ formatDay(Get(cached, "1.1").today, "today").power # << >>

\* Both zones changed and only zone 1.1 has a recipient: zone 2.1 was
\* skipped.
C22_WitnessSkipped ==
  /\ cyclePc = "done"
  /\ changedZones = <<"1.1", "2.1">>
  /\ Len(calls) = 1
  /\ calls[1].zone = "1.1"
  /\ RecipientsOf("2.1") = << >>

\* C25: table schedule_cache always holds exactly one row and its id is 1:
\* updateCache rewrites it without adding or removing a row; and every step
\* leaves the history as it is or appends one row to it.
C25_CacheSingletonHistoryAppendOnly ==
  /\ [](/\ Cardinality(scheduleCache) = 1
        /\ \A row \in scheduleCache : row.id = 1)
  /\ [][\/ history' = history
        \/ /\ Len(history') = Len(history) + 1
           /\ SubSeq(history', 1, Len(history)) = history]_vars

\* A cycle with changed zones has rewritten the one row with its fresh
\* snapshot, which differs from the snapshot the row held before.
C25_Witness ==
  /\ cyclePc = "done"
  /\ changedZones # << >>
  /\ cached = Published
  /\ cached # fresh
  /\ scheduleCache = { ScheduleCacheRow(1, fresh) }
  /\ Len(history) = 1

\* C23: delivery failures in one zone never abort the cycle.  The notification
\* loop is only left after the last call has returned, towards the cache write,
\* with one call made for every changed zone that has recipients, whatever the
\* sends did; a returned call with zones left is followed by the next call; and
\* a cycle that leaves the cache write has written the fetched data.
C23_FailuresDoNotAbortTheCycle ==
  [][/\ (cyclePc = "notify" /\ cyclePc' # "notify") =>
          /\ bulkPc = "done"
          /\ cyclePc' = "updateCache"
          /\ Len(calls) = Len(ZonesWithRecipients)
     /\ (cyclePc = "notify" /\ bulkPc = "done"
           /\ Len(calls) < Len(ZonesWithRecipients)) =>
          /\ cyclePc' = "notify"
          /\ Len(calls') = Len(calls) + 1
          /\ calls'[Len(calls')].zone = ZonesWithRecipients[Len(calls')]
     /\ (cyclePc = "updateCache" /\ cyclePc' # "updateCache") =>
          /\ cyclePc' = "done"
          /\ getCachedData(SelectSingle(scheduleCache')) = fresh]_vars

\* Every send of both changed zones failed, both zones were dispatched and the
\* cycle ended with the cache written.
C23_Witness ==
  /\ cyclePc = "done"
  /\ Len(calls) = 2
  /\ Len(logged) = 2
  /\ ~logged[1].delivered
  /\ ~logged[2].delivered
  /\ getCachedData(SelectSingle(scheduleCache)) = fresh

\* C29: at every moment of a sendBulkMessages call at most 30 sends are
\* outstanding: the sends started and not yet settled are those of the current
\* chunk, and no chunk is longer than 30.
C29_AtMostThirtyOutstanding ==
  /\ pending <= 30
  /\ pending <= Len(chunk)
  /\ Len(chunk) <= 30
  /\ bulkPc # "await" => pending = 0

\* A full chunk of a longer list has just been started: 30 sends are
\* outstanding and recipients are left for a later chunk.
C29_Witness ==
  /\ bulkPc = "await"
  /\ pending = 30
  /\ Len(chatIds) > loopI + 30

\* C30: sendBulkMessages returns if every individual send eventually settles,
\* and only then.  A call that has started returns unless one of its sends
\* never settles; and once a send never settles, the call stays in the await
\* of that chunk, starts no further send and never returns.
C30_ReturnsIffEverySendSettles ==
  /\ (bulkPc \in {"await", "pause"}) ~> (bulkPc = "done" \/ hung > 0)
  /\ [](hung > 0 => bulkPc = "await" /\ pending >= hung)
  /\ [][hung > 0 => /\ hung' >= hung
                    /\ bulkPc' = "await"
                    /\ loopI' = loopI
                    /\ sent' = sent]_vars

\* The first chunk of a longer list is blocked by one send that never
\* settles: every other send has settled and a later chunk is left unstarted.
C30_Witness ==
  /\ bulkPc = "await"
  /\ hung = 1
  /\ pending = hung
  /\ MoreChunks(loopI, chatIds)
  /\ Len(sent) = TELEGRAM_RATE_LIMITS.CHUNK_SIZE

\* A call over three chunks has returned: no send of it hung.
C30_WitnessReturned ==
  /\ bulkPc = "done"
  /\ hung = 0
  /\ Len(chunks) = 3

\* Invocations i and j ran at the same time: one started while the other was
\* running.
Overlapped(i, j) == i \in runs[j].overlapped \/ j \in runs[i].overlapped

\* Invocations i and j both notified a recipient of the same zone of the same
\* schedule, each having detected the change against the same state of the
\* cache row.
NotifiedTwice(i, j) ==
  /\ i # j
  /\ runs[i].readAt = runs[j].readAt
  /\ \E a \in Range(runs[i].notified), b \in Range(runs[j].notified) :
       /\ a.zone = b.zone
       /\ a.data = b.data
       /\ Range(a.chatIds) \cap Range(b.chatIds) # {}

C24_WitnessOneAtATime ==
  \E i, j \in RunIds :
    /\ i # j
    /\ ~Overlapped(i, j)
    /\ runs[i].pc = "done" /\ runs[j].pc = "done"
    /\ runs[i].freshData = runs[j].freshData
    /\ Len(runs[i].notified) > 0
    /\ runs[j].readAt = runs[i].readAt + 1
    /\ runs[j].changedZones = << >>

\* The subscriptions of the user of a chat.
SubscriptionsOf(chatId) ==
  { s \in userSubs : \E u \in users : u.chat_id = chatId /\ u.id = s.user_id }

\* Call o of subscribeUser returns true in this step.
SubscribeSucceeds(o) ==
  /\ OpAt(o, "upsert")
  /\ ops'[o].result = "true"

\* C26: after any sequence of subscribe and unsubscribe operations each user
\* has at most one active subscription, and it is to the zone of their most
\* recent successful subscribe; a subscribe that succeeds leaves the user with
\* the new zone as the only subscription, whatever the old one was.
C26_OneSubscriptionLatestZone ==
  /\ [](/\ \A s \in userSubs : \E u \in users : u.id = s.user_id
        /\ \A u1, u2 \in users : u1.chat_id = u2.chat_id => u1 = u2
        /\ \A c \in ChatIds :
             /\ Cardinality(SubscriptionsOf(c)) <= 1
             /\ \A s \in SubscriptionsOf(c) :
                  c \in DOMAIN lastSubscribed /\ s.zone = lastSubscribed[c])
  /\ [][\A o \in OpIds :
          SubscribeSucceeds(o) =>
            /\ lastSubscribed'[ops[o].chatId] = ops[o].zone
            /\ { s.zone : s \in SubscriptionsOf(ops[o].chatId)' } = { ops[o].zone }]_vars

\* A chat subscribed to one zone and then to the other, both calls returned
\* true: its only subscription is to the zone of the later one.
C26_Witness ==
  /\ Len(ops) >= 2
  /\ ops[1].kind = "subscribe" /\ ops[1].result = "true"
  /\ ops[2].kind = "subscribe" /\ ops[2].result = "true"
  /\ ops[1].chatId = ops[2].chatId
  /\ ops[1].zone # ops[2].zone
  /\ lastSubscribed[ops[2].chatId] = ops[2].zone
  /\ { s.zone : s \in SubscriptionsOf(ops[2].chatId) } = { ops[2].zone }

\* C27: users are persisted after unsubscribing: unsubscribeUser removes only
\* the subscription of its user and never a user record, and the set of known
\* users only grows.
C27_UsersOnlyGrow ==
  [][/\ users \subseteq users'
     /\ \A o \in 1..Len(ops) :
          (ops[o].kind = "unsubscribe" /\ ops'[o] # ops[o]) =>
            /\ users' = users
            /\ userSubs' \subseteq userSubs
            /\ \A s \in userSubs \ userSubs' : s.user_id = ops[o].userId]_vars

\* A chat subscribed and then unsubscribed, both calls returned true: its user
\* row is still there and it has no subscription.
C27_Witness ==
  \E o \in OpIds :
    /\ o <= Len(ops)
    /\ ops[o].kind = "unsubscribe"
    /\ ops[o].result = "true"
    /\ ops[o].chatId \in DOMAIN lastSubscribed
    /\ \E u \in users : u.chat_id = ops[o].chatId /\ u.id = ops[o].userId
    /\ SubscriptionsOf(ops[o].chatId) = {}

\* The chats that hold a subscription, from the tables.
SubscribedChats ==
  { u.chat_id : u \in { w \in users : \E s \in userSubs : s.user_id = w.id } }

\* C28: /broadcast is admin only.  A broadcast command from any chat other
\* than the administrator's sends nothing to any subscriber and no reply to
\* the sender; one from the administrator's chat sends the given text once to
\* each distinct subscribed chat, and to nobody else, through sendBulkMessages.
C28_BroadcastAdminOnly ==
  /\ (cmd.pc # "idle" /\ cmd.chatId # ADMIN_CHAT_ID) =>
       /\ sent = << >>
       /\ bulkPc = "idle"
       /\ cmd.replies = << >>
  /\ (cmd.chatId = ADMIN_CHAT_ID /\ StartsWith(cmd.command, BroadcastPrefix)
        /\ (cmd.pc = "bulk" \/ (cmd.pc \in {"reply", "done"} /\ SubscribedChats # {}))) =>
       /\ chatIds = cmd.uniqueChatIds
       /\ Range(chatIds) = SubscribedChats
       /\ Len(chatIds) = Cardinality(SubscribedChats)
       /\ BroadcastPrefix \o cmd.bulkText = cmd.command
       /\ Range(sent) \subseteq SubscribedChats
       /\ \A p, q \in 1..Len(sent) : sent[p] = sent[q] => p = q
       /\ bulkPc = "done" => Range(sent) = SubscribedChats
       /\ cmd.pc \in {"reply", "done"} => bulkPc = "done"

\* The administrator's broadcast of a text has gone out to 31 subscribed chats
\* and the administrator's own, in two chunks; the user without a
\* subscription is not among them.
C28_Witness ==
  /\ cmd.pc = "done"
  /\ cmd.chatId = ADMIN_CHAT_ID
  /\ cmd.bulkText = <<"h", "i">>
  /\ Len(sent) = TELEGRAM_RATE_LIMITS.CHUNK_SIZE + 2
  /\ ADMIN_CHAT_ID \in Range(sent)
  /\ \E u \in users : u.chat_id \notin Range(sent)

\* A broadcast command from a subscribed chat that is not the administrator's
\* has returned: nothing was sent.
C28_WitnessNotAdmin ==
  /\ cmd.pc = "done"
  /\ cmd.chatId = 1
  /\ cmd.chatId \in SubscribedChats
  /\ StartsWith(cmd.command, BroadcastPrefix)
  /\ sent = << >>

\* C31: in a cycle with changes the cache is written only after the
\* sendBulkMessages call of the last changed zone has returned: the row is
\* only rewritten by the step that follows the loop, with every call made and
\* returned, and until then a reader of the cache sees the snapshot the cycle
\* read, not the fresh one.
C31_CacheWrittenAfterLastCall ==
  /\ [][scheduleCache' # scheduleCache =>
          /\ cyclePc = "updateCache"
          /\ bulkPc \in {"idle", "done"}
          /\ pending = 0
          /\ Len(calls) = Len(ZonesWithRecipients)
          /\ Len(logged) = Len(calls)
          /\ ReaderSees(scheduleCache') = fresh]_vars
  /\ [](cyclePc \in {"saveHistory", "readSubscribers", "notify", "updateCache"} =>
          ReaderSees(scheduleCache) = cached)

\* The call for the last of two changed zones is in progress, the call for
\* the first has returned, and a reader of the cache still gets the previous
\* snapshot.
C31_Witness ==
  /\ cyclePc = "notify"
  /\ Len(calls) = 2
  /\ Len(logged) = 1
  /\ bulkPc = "await"
  /\ ReaderSees(scheduleCache) = cached
  /\ ReaderSees(scheduleCache) # fresh

\* The number of accesses of one kind the cycle has made so far.
AccessCount(kind) == Cardinality({i \in 1..Len(accesses) : accesses[i] = kind})

\* C32 as stated: a cycle that has ended has read the cache exactly once, and
\* that read came before the fetch of the fresh snapshot; it has written the
\* cache at most once, as its last access.
C32_ReadOnceBeforeFetch ==
  cyclePc = "done" =>
    /\ AccessCount("read") = 1
    /\ \A i, j \in 1..Len(accesses) :
         accesses[i] = "read" /\ accesses[j] = "fetch" => i < j
    /\ AccessCount("write") <= 1
    /\ \A i \in 1..Len(accesses) : accesses[i] = "write" => i = Len(accesses)

\* C32, amended: a cycle fetches the fresh snapshot first; it reads the cache
\* at most once, after the fetch and only when the fetch returned data
\* (exactly once then), and it writes the cache at most once, as its last
\* access, after which it has ended.
C32_ReadAfterFetchWriteLast ==
  /\ accesses \in {<< >>, <<"fetch">>, <<"fetch", "read">>, <<"fetch", "read", "write">>}
  /\ AccessCount("read") = 1 => fetchResult = "data"
  /\ cyclePc = "done" /\ fetchResult = "data" => AccessCount("read") = 1
  /\ AccessCount("write") = 1 => cyclePc = "done"

C32_Witness ==
  /\ cyclePc = "done"
  /\ accesses = <<"fetch", "read", "write">>
  /\ Len(calls) > 0

\* Invocation r has its fresh snapshot and the cache it read, and the call
\* of detectChangedZones is over.
Detected(r) ==
  /\ runs[r].pc \in {"saveHistory", "readSubscribers", "notify", "updateCache", "catch", "done"}
  /\ runs[r].freshData # EmptyResponse
  /\ "cacheRead" \notin runs[r].raised

\* The zones of invocation r's fresh snapshot that the cache it read holds
\* too and whose fresh entry lacks today or tomorrow.
LackingDay(r) ==
  { runs[r].freshData[i].zone : i \in
      { j \in 1..Len(runs[r].freshData) :
          /\ Get(runs[r].cachedData, runs[r].freshData[j].zone) # Undefined
          /\ \/ runs[r].freshData[j].data.today = Undefined
             \/ runs[r].freshData[j].data.tomorrow = Undefined } }

\* C33: once detectChangedZones is over, a zone present in both snapshots
\* whose fresh entry lacks its today or tomorrow schedule is in the list of
\* changed zones, and the other zones of the snapshot were evaluated: the
\* call returned and did not raise.
C33_ZoneLackingDayReportedChanged ==
  \A r \in RunIds :
    Detected(r) =>
      /\ LackingDay(r) \subseteq Range(runs[r].changedZones)
      /\ LackingDay(r) # {} => "detect" \notin runs[r].raised

\* The stages whose exception reaches the catch block of checkScheduleUpdates.
OuterStages == {"cacheRead", "detect", "format", "cacheWrite"}

\* The positions of an invocation that the code of checkScheduleUpdates has.
SeqPositions ==
  {"idle", "fetch", "saveFailure", "readCache", "saveHistory", "readSubscribers",
   "notify", "updateCache", "catch", "done"}

\* C34 as stated: no invocation fails its caller, and an invocation that has
\* ended after an exception was raised during cache read, change detection,
\* subscriber lookup, notification or cache write has attempted an audit
\* record for it.
C34_EveryExceptionAudited ==
  \A r \in RunIds :
    /\ runs[r].pc \in SeqPositions
    /\ runs[r].pc = "done" /\ runs[r].raised # {} => runs[r].audit \in {"saved", "failed"}

\* C34, amended: no invocation fails its caller.  An exception raised during
\* cache read, change detection, message formatting or cache write takes the
\* invocation to its catch block with the error's text; when it has ended,
\* the audit record with that text was attempted, and it is in the history
\* unless the audit write failed.  An exception raised during the subscriber
\* lookup is caught inside the lookup, which returns an empty grouping: no
\* audit record is attempted for it, and the invocation goes on without
\* notifying anybody.
C34_ExceptionsCaught ==
  \A r \in RunIds :
    LET run == runs[r]
        outer == run.raised \cap OuterStages
    IN /\ run.pc \in SeqPositions
       /\ outer # {} => run.pc \in {"catch", "done"} /\ run.error \in {TypeErrorText, ClientErrorText}
       /\ outer # {} /\ run.pc = "done" => run.audit \in {"saved", "failed"}
       /\ run.audit = "saved" =>
            \E k \in 1..Len(history) : history[k].notes = ErrorNote(run.error)
       /\ outer = {} => run.audit = "none" /\ run.pc # "catch"
       /\ "lookup" \in run.raised /\ outer = {} => run.notified = << >>

\* The first invocation ended after updateCache raised and the audit write
\* failed too; the second ended after its subscriber lookup raised.
C34_Witness ==
  /\ runs[1].pc = "done"
  /\ runs[1].raised = {"cacheWrite"}
  /\ runs[1].notified # << >>
  /\ runs[1].audit = "failed"
  /\ runs[2].pc = "done"
  /\ runs[2].raised = {"lookup"}
  /\ Len(runs[2].changedZones) > 0

C35_WitnessDirect ==
  /\ retry.pc = "done"
  /\ retry.proxies = << >>
  /\ Len(retry.attempts) = 1
  /\ retry.result = Null

\* Two days with the same status and the same slots, or both missing.
SameDay(day1, day2) ==
  IF day1 = Undefined \/ day2 = Undefined
  THEN day1 = Undefined /\ day2 = Undefined
  ELSE day1.status = day2.status /\ day1.slots = day2.slots

\* Two snapshots with the same zones, equal in every status and slot.
SameSchedule(s1, s2) ==
  /\ ObjectKeys(s1) = ObjectKeys(s2)
  /\ \A i \in 1..Len(s1) :
       /\ SameDay(s1[i].data.today, s2[i].data.today)
       /\ SameDay(s1[i].data.tomorrow, s2[i].data.tomorrow)

\* Invocation r detected changes and ran to its end, the cache write
\* included, without an exception reaching its catch block.
CompletedWithChanges(r) ==
  /\ runs[r].pc = "done"
  /\ Len(runs[r].changedZones) > 0
  /\ runs[r].raised \cap OuterStages = {}

\* The chats some call of sendBulkMessages of invocation r was made for.
NotifiedChats(r) ==
  UNION { Range(runs[r].notified[k].chatIds) : k \in 1..Len(runs[r].notified) }

ZoneUnchanged(p, r, zone) ==
  /\ HasKey(runs[p].freshData, zone)
  /\ HasKey(runs[r].freshData, zone)
  /\ SameDay(Get(runs[p].freshData, zone).today, Get(runs[r].freshData, zone).today)
  /\ SameDay(Get(runs[p].freshData, zone).tomorrow, Get(runs[r].freshData, zone).tomorrow)

\* The calls of invocation r in which the send to some chat failed.
FailedCalls(r) ==
  { k \in 1..Len(runs[r].notified) :
      Range(runs[r].notified[k].chatIds) \ runs[r].notified[k].delivered # {} }

RaisedAfterNotifying(r) ==
  /\ runs[r].pc = "done"
  /\ runs[r].notified # << >>
  /\ runs[r].raised \cap {"format", "cacheWrite"} # {}

\* The calls of sendBulkMessages of invocation r: zone, recipients and text.
CallsOf(r) ==
  [k \in 1..Len(runs[r].notified) |->
     BulkCall(runs[r].notified[k].zone, runs[r].notified[k].chatIds,
              runs[r].notified[k].text)]

\* C38: when an invocation has ended by an exception raised after some zones
\* were notified, the cache still holds what the invocation read, until a
\* later invocation completes with changes; the next invocation, when it
\* fetches the same data, detects the same zones, and, its subscriber lookup
\* made, repeats every call of the first: the same recipients get the same
\* notification a second time.
C38_ExceptionAfterNotifyRepeats ==
  \A r \in RunIds :
    RaisedAfterNotifying(r) =>
      /\ (\A q \in RunIds : q > r => ~CompletedWithChanges(q)) =>
           ReaderSees(scheduleCache) = runs[r].cachedData
      /\ (/\ r + 1 \in RunIds
          /\ runs[r + 1].freshData = runs[r].freshData
          /\ "cacheRead" \notin runs[r + 1].raised
          /\ runs[r + 1].pc \notin {"idle", "fetch", "saveFailure", "readCache"})
         => /\ runs[r + 1].changedZones = runs[r].changedZones
            /\ (/\ runs[r + 1].pc \in {"updateCache", "catch", "done"}
                /\ "lookup" \notin runs[r + 1].raised)
               => /\ Len(CallsOf(r + 1)) >= Len(CallsOf(r))
                  /\ SubSeq(CallsOf(r + 1), 1, Len(CallsOf(r))) = CallsOf(r)

\* The first invocation delivered the notification of zone 1.1 and raised
\* while formatting the message of zone 2.1; the second, with the same data,
\* made the same call and raised at the same place.
C38_Witness ==
  /\ RaisedAfterNotifying(1)
  /\ runs[1].raised = {"format"}
  /\ runs[1].notified[1].delivered = Range(runs[1].notified[1].chatIds)
  /\ runs[2].pc = "done"
  /\ runs[2].freshData = runs[1].freshData
  /\ runs[2].raised = {"format"}
  /\ CallsOf(2) = CallsOf(1)
  /\ runs[2].notified[1].delivered = Range(runs[2].notified[1].chatIds)

\* How many times a chat id stands in the lists of the grouping.
Occurrences(byZone, chatId) ==
  Cardinality({ <<z, k>> \in (DOMAIN byZone) \X (1..MaxUsers) :
                  k <= Len(byZone[z]) /\ byZone[z][k] = chatId })

\* The zones whose list holds a chat id.
ZonesOfChat(byZone, chatId) ==
  { z \in DOMAIN byZone : \E k \in 1..Len(byZone[z]) : byZone[z][k] = chatId }

\* C39: in the grouping getAllSubscribersGroupedByZone returns, a chat id
\* stands in the list of at most one zone and once in it, so the loop over
\* the changed zones sends a chat at most one notification; every selected
\* subscription whose user has a chat id has that chat id in the list of its
\* zone and of no other zone; a subscription whose user has none is left
\* out, and no list holds an undefined chat id or is empty.
C39_EachChatInOneZoneOnce ==
  cyclePc = "grouped" =>
    /\ \A c \in { ChatIdOf(k) : k \in 1..MaxUsers } \cup {0} :
         Occurrences(subscribersByZone, c) <= 1
    /\ \A z \in DOMAIN subscribersByZone :
         /\ Len(subscribersByZone[z]) > 0
         /\ \A k \in 1..Len(subscribersByZone[z]) :
              \E u \in users : u.chat_id = subscribersByZone[z][k]
    /\ \A i \in 1..Len(subscriptions) :
         LET sub == subscriptions[i]
             chatId == UserMapGet(users, sub.user_id)
         IN IF chatId # 0
            THEN ZonesOfChat(subscribersByZone, chatId) = {sub.zone}
            ELSE \A z \in DOMAIN subscribersByZone :
                   Len(subscribersByZone[z]) <=
                     Cardinality({ j \in 1..Len(subscriptions) :
                                     /\ subscriptions[j].zone = z
                                     /\ UserMapGet(users, subscriptions[j].user_id) # 0 })

\* Three subscriptions were selected, two of them to the same zone; the user
\* of one was deleted before the users were selected, and the grouping holds
\* the two others, each in the list of its zone.
C39_Witness ==
  /\ cyclePc = "grouped"
  /\ Len(subscriptions) = 3
  /\ subscriptions[1].zone = subscriptions[2].zone
  /\ UserMapGet(users, subscriptions[1].user_id) = 0
  /\ DOMAIN subscribersByZone = Zones
  /\ \A z \in Zones : Len(subscribersByZone[z]) = 1

====
